---- MODULE Spec2Model ----
(***************************************************************************)
(* blink-db: the byte-accounted LRU map (lib/lru_cache.h), the two-tier    *)
(* store (part-a/lib/lru_cache.h) and the append-only log with its index,  *)
(* membership filter and compactor (part-b/lib/persistence_kv_store.h).    *)
(* Strings are sequences of one-character strings; a length is Len.        *)
(***************************************************************************)
EXTENDS Integers, Sequences, FiniteSets, TLC

(***************************************************************************)
(* Bounds of the model and constants of the program                        *)
(***************************************************************************)
\* sizeof(CacheEntry): two std::string (32 bytes each) and a time_point (8)
EntryOverhead == 72

\* length of the ordinary values the clients send
ValLen == 100

\* capacity, in ordinary entries, of the LRU maps that are constructed
MaxEntries == 2

\* the constructed capacities leave room for up to LeakRoom more overheads
LeakRoom == 1

Keys == {<<"a">>, <<"b">>, <<"a", "b">>}

MaxKeyLen == CHOOSE n \in {Len(k) : k \in Keys} : \A k \in Keys : Len(k) <= n

\* the values that go through the persistence tier
LogValues == {<<"x">>, <<"y">>}

\* cap on the length of the log file
MaxFileLen == 9

\* most requests that a client writes in two pieces
MaxSplit == 2

\* most clients that connect to one worker
MaxConns == 2

\* most passes of the compactor in a run
MaxPasses == 1

\* cap on a counter of the membership filter
MaxCount == 2

\* the _bloom_filter_size arguments the store is constructed with
MaxFilterSize == 2

\* the max_mem argument the two-tier LRUCache is constructed with
TierMaxMem == 8

\* length of the long argument that the senders of odd requests use
LongArgLen == 10

\* most keys in one DEL request
MaxDelKeys == 2

\* most arguments in a request made of odd payloads
MaxOddArgs == 2

\* the buffer_size a Server is constructed with for the connection runs
ConnBufferSize == 48

\* most requests a client sends on its connection
MaxPipeline == 3

\* the values of std::hash have bits 0..30 of value up to MaxHash
MaxHash == 2

\* most workers behind the router
MaxWorkers == 3

\* entries of one-byte key and value that the memory limit of a worker
\* behind the router has room for
WorkerEntries == 2

\* BUFFER_SIZE of blink_server_with_lb.cpp
RouterBufferSize == 1024

\* BUFFER_SIZE of the worker (src/blink_server.cpp) and of dumy.c
BufferSize == 2048
DumyBufferSize == 1024

SP == " "
LF == "\n"

\* the max_mem arguments the LRUCache constructor is called with
MemLimits == {MaxEntries * (EntryOverhead + ValLen + MaxKeyLen)
                 + n * EntryOverhead : n \in 0..LeakRoom}

LargestLimit == MaxEntries * (EntryOverhead + ValLen + MaxKeyLen)
                   + LeakRoom * EntryOverhead

Str(c, n) == [i \in 1..n |-> c]

\* a value no constructed map has room for
BigValue == Str("z", LargestLimit)

Values == {Str("x", ValLen), <<"s">>, BigValue}

NoValue == <<>>

(***************************************************************************)
(* State                                                                   *)
(***************************************************************************)
VARIABLES
    cache_list,            \* LRUCache::cache_list, front (MRU) first
    cache_map,             \* LRUCache::cache_map, the keys that have a handle
    current_memory_usage,  \* LRUCache::current_memory_usage
    max_memory_bytes,      \* LRUCache::max_memory_bytes
    touchOrder,            \* keys by last touch, most recent first
    trip,                  \* progress of a set / del / del round trip
    dataFile,              \* the bytes of the log file PersistenceKVStore::filename
    index,                 \* PersistenceKVStore::index, the trie by node path
    bloomFilter,           \* BloomFilter::filter, the counter of each bucket
    filter_size,           \* BloomFilter::filter_size
    removed,               \* per key: removed and not inserted again since
    tier_list,             \* part-a LRUCache: the nodes between head and tail
    tier_dict,             \* part-a LRUCache::dict, the keys it maps to a node
    tier_memory_usage,     \* part-a LRUCache::current_memory_usage
    tier_max_memory_bytes, \* part-a LRUCache::max_memory_bytes
    spilled,               \* per key: the value it had when last evicted
    deleted,               \* per key: deleted and not set again since
    buffer_,               \* Server: the bytes that the last recv returned
    result_,               \* Server: result, the command parsed from them
    response,              \* Server: the bytes sent back
    running,               \* Server: the worker process is alive
    request,               \* how the sender made the bytes of the request
    set_stored,            \* whether the set of the last SET stored its entry
    dumy_keys,             \* dumy.c: the keys in the hash table of database
    recv_queue,            \* connection: bytes that arrived and recv has not
                           \* returned yet
    epoll_ready,           \* connection: a readiness event waits for the
                           \* worker
    buffer_size_,          \* Server::buffer_size_
    conn_sent,             \* connection: the requests the client sent
    conn_done,             \* connection: the commands handle_command got
    conn_replies,          \* connection: the replies the worker sent
    conn_rest,             \* connection: the bytes of the request in hand
                           \* that the client has not written yet
    reg_fds,               \* reactor: the client sockets registered with
                           \* epoll
    fd_closes,             \* reactor: per client socket, the calls of close
    peer,                  \* reactor: per client socket, what its recv
                           \* returns next
    last_ev,               \* reactor: the event handled last
    hash_fn,               \* std::hash<std::string>, by input string
    servers_add_,          \* LoadBalancer::servers_add_, the worker ports
    hash_ring_,            \* LoadBalancer::hash_ring_
    server_map_,           \* LoadBalancer::server_map_, ring value to port
    worker_db,             \* per worker port: the database_ of its Server
    lb_connected,          \* router: connect to the worker succeeded
    lb_running,            \* the router process is alive
    lb_request,            \* router: how the last request came and its
                           \* arguments
    lb_target,             \* router: the port getServer chose for it
    lb_reply,              \* router: the bytes relayed to the client for it
    lb_sockets,            \* router: which sockets are open after it
    home,                  \* per key: the port its requests were routed to
    tempFile,              \* triggerRewrite: the bytes of the temporary file
    temp_ok,               \* triggerRewrite: the temporary file was opened
    new_index,             \* triggerRewrite: the index the pass builds
    rw_pc,                 \* triggerRewrite: where the compactor thread is
    stream_pos,            \* the one file position of the stream dataFile
    mtx_index,             \* PersistenceKVStore::mtx_index: the thread that
                           \* holds it
    pending,               \* the insert the request thread is in the middle
                           \* of
    actor,                 \* the thread of the last step, whether the step
                           \* touched the index or the filter, and whether
                           \* the thread held mtx_index then
    passes,                \* the passes of triggerRewrite that were started
    pass_log,              \* per key: the call for it that ran within the
                           \* pass in progress
    d_ht,                  \* Dict::d.ht, the two hash tables: the chain of
                           \* each bucket, head first, and used
    d_rehashidx,           \* Dict::d.rehashidx
    dict_can_resize,       \* Dict::dict_can_resize
    hashFunction,          \* Dict::hashFunction, by key
    dict_model,            \* per key: the value a map holds for it after
                           \* the same calls, DictNull for none
    dict_last,             \* the last call of the dictionary, what it
                           \* returned and what the map held for its key
    lastOp,                \* the last call and what it returned
    lastSet                \* per key: value of the latest set (insert) call
                           \* since the key was last stored, NoValue once it
                           \* was deleted (removed) or evicted

lruVars == <<cache_list, cache_map, current_memory_usage, max_memory_bytes,
             touchOrder, trip>>

logVars == <<dataFile, index, bloomFilter, filter_size, removed>>

tierVars == <<tier_list, tier_dict, tier_memory_usage, tier_max_memory_bytes,
              spilled, deleted>>

serverVars == <<buffer_, result_, response, running, request, set_stored,
                dumy_keys>>

reactorVars == <<reg_fds, fd_closes, peer, last_ev>>

connVars == <<recv_queue, epoll_ready, buffer_size_, conn_sent, conn_done,
              conn_replies, conn_rest, reactorVars>>

routerVars == <<hash_fn, servers_add_, hash_ring_, server_map_, worker_db,
                lb_connected, lb_running, lb_request, lb_target, lb_reply,
                lb_sockets, home>>

compactVars == <<tempFile, temp_ok, new_index, rw_pc, stream_pos, mtx_index,
                 pending, actor, pass_log, passes>>

dictVars == <<d_ht, d_rehashidx, dict_can_resize, hashFunction, dict_model,
              dict_last>>

extVars == <<connVars, routerVars, compactVars, dictVars>>

vars == <<cache_list, cache_map, current_memory_usage, max_memory_bytes,
          touchOrder, trip, dataFile, index, bloomFilter, filter_size,
          removed,
          tier_list, tier_dict, tier_memory_usage, tier_max_memory_bytes,
          spilled, deleted, buffer_, result_, response, running, request,
          set_stored, dumy_keys, extVars, lastOp, lastSet>>

(***************************************************************************)
(* Helpers on sequences                                                    *)
(***************************************************************************)
Range(s) == {s[i] : i \in 1..Len(s)}

ListKeys(list) == [i \in 1..Len(list) |-> list[i].key]

RECURSIVE SumSeq(_)
SumSeq(s) == IF s = <<>> THEN 0 ELSE Head(s) + SumSeq(Tail(s))

\* the sequence s without the elements equal to x
Without(s, x) == SelectSeq(s, LAMBDA e : e # x)

\* s restricted to the elements of the set S, order kept
Restrict(s, S) == SelectSeq(s, LAMBDA e : e \in S)

\* the persistence tier is not constructed
NoStore ==
    /\ dataFile = <<>>
    /\ index = <<>>
    /\ bloomFilter = <<>>
    /\ filter_size = 0
    /\ removed = <<>>

\* no worker is running
\* no reactor with several clients
NoReactor ==
    /\ reg_fds = {}
    /\ fd_closes = <<>>
    /\ peer = <<>>
    /\ last_ev = <<>>

\* no connection
NoConn ==
    /\ NoReactor
    /\ recv_queue = <<>>
    /\ epoll_ready = FALSE
    /\ buffer_size_ = 0
    /\ conn_sent = <<>>
    /\ conn_done = <<>>
    /\ conn_replies = <<>>
    /\ conn_rest = <<>>

\* no router
NoRouter ==
    /\ hash_fn = <<>>
    /\ servers_add_ = <<>>
    /\ hash_ring_ = {}
    /\ server_map_ = <<>>
    /\ worker_db = <<>>
    /\ lb_connected = FALSE
    /\ lb_running = FALSE
    /\ lb_request = <<>>
    /\ lb_target = 0
    /\ lb_reply = <<>>
    /\ lb_sockets = {}
    /\ home = <<>>

\* no compactor thread
NoCompact ==
    /\ tempFile = <<>>
    /\ temp_ok = FALSE
    /\ new_index = <<>>
    /\ rw_pc = "none"
    /\ stream_pos = 0
    /\ mtx_index = "none"
    /\ pending = <<>>
    /\ actor = <<>>
    /\ pass_log = <<>>
    /\ passes = 0

\* no dictionary
NoDict ==
    /\ d_ht = <<>>
    /\ d_rehashidx = -1
    /\ dict_can_resize = FALSE
    /\ hashFunction = <<>>
    /\ dict_model = <<>>
    /\ dict_last = <<>>

NoExt == NoConn /\ NoRouter /\ NoCompact /\ NoDict

NoServer ==
    /\ NoExt
    /\ buffer_ = <<>>
    /\ result_ = <<>>
    /\ response = <<>>
    /\ running = FALSE
    /\ request = <<>>
    /\ set_stored = FALSE
    /\ dumy_keys = {}

\* the two-tier store is not constructed
NoTier ==
    /\ tier_list = <<>>
    /\ tier_dict = {}
    /\ tier_memory_usage = 0
    /\ tier_max_memory_bytes = 0
    /\ spilled = <<>>
    /\ deleted = <<>>

(***************************************************************************)
(* LRUCache (lib/lru_cache.h)                                              *)
(***************************************************************************)
\* size_t entry_size = key.size() + value.size() + sizeof(CacheEntry)
EntrySize(key, value) == Len(key) + Len(value) + EntryOverhead

\* what set, del and the eviction loop subtract for an entry that leaves
ReleasedBytes(e) == Len(e.key) + Len(e.value)

\* variant: the size of the new entry is left out of the comparison
NoRoom_IgnoreEntry(mem, entry_size, max) == mem > max

\* current_memory_usage + entry_size > max_memory_bytes
NoRoom(mem, entry_size, max) == mem + entry_size > max

\* cache_map.find(key) followed by dereferencing the handle
FindEntry(list, key) == CHOOSE e \in Range(list) : e.key = key

\* variant: the entry stays in the list
EraseEntry_Keep(list, key) == list

\* cache_list.erase(handle)
EraseEntry(list, key) == SelectSeq(list, LAMBDA e : e.key # key)

\* variant: the entry is left where it is
MoveToFront_Stay(list, key) == list

\* cache_list.splice(cache_list.begin(), cache_list, handle)
MoveToFront(list, key) == <<FindEntry(list, key)>> \o EraseEntry(list, key)

\* cache_list.emplace_front(key, value)
EmplaceFront(list, key, value) == <<[key |-> key, value |-> value]>> \o list

\* cache_list.back() / pop_back()
Back(list) == list[Len(list)]
PopBack(list) == SubSeq(list, 1, Len(list) - 1)

\* the update branch of set: an existing entry of the key is erased first
SetErase(st, key) ==
    IF key \in st.map
    THEN [list |-> EraseEntry(st.list, key),
          map |-> st.map \ {key},
          mem |-> st.mem - ReleasedBytes(FindEntry(st.list, key)),
          evicted |-> st.evicted]
    ELSE st

\* the eviction loop of set
RECURSIVE EvictLoop(_, _, _)
EvictLoop(st, entry_size, max) ==
    IF NoRoom(st.mem, entry_size, max) /\ st.list # <<>>
    THEN EvictLoop([list |-> PopBack(st.list),
                    map |-> st.map \ {Back(st.list).key},
                    mem |-> st.mem - ReleasedBytes(Back(st.list)),
                    evicted |-> Append(st.evicted, Back(st.list).key)],
                   entry_size, max)
    ELSE st

\* the state of the map as set leaves it, with stored = FALSE when rejected
SetResult(list, map, mem, max, key, value) ==
    LET st0 == [list |-> list, map |-> map, mem |-> mem, evicted |-> <<>>]
        st1 == SetErase(st0, key)
        st2 == EvictLoop(st1, EntrySize(key, value), max)
    IN  IF NoRoom(st2.mem, EntrySize(key, value), max)
        THEN [list |-> st2.list, map |-> st2.map, mem |-> st2.mem,
              evicted |-> st2.evicted, stored |-> FALSE]
        ELSE [list |-> EmplaceFront(st2.list, key, value),
              map |-> st2.map \cup {key},
              mem |-> st2.mem + EntrySize(key, value),
              evicted |-> st2.evicted, stored |-> TRUE]

\* ghost: no set / del / del round trip is under way
NoTrip == [phase |-> 0, key |-> <<>>, mem |-> 0, size |-> 0,
           mem2 |-> 0, size2 |-> 0]

\* ghost: the recency order after a touch of key
Touch(order, key) == <<key>> \o Without(order, key)

Set(key, value) ==
    LET r == SetResult(cache_list, cache_map, current_memory_usage,
                       max_memory_bytes, key, value)
        hadKey == key \in cache_map
    IN  /\ cache_list' = r.list
        /\ cache_map' = r.map
        /\ current_memory_usage' = r.mem
        /\ lastOp' = [name |-> "set", key |-> key, value |-> value,
                      ret |-> r.stored, evicted |-> r.evicted]
        /\ lastSet' = [k \in Keys |->
                         IF k = key
                         THEN (IF r.stored \/ lastSet[k] # NoValue
                               THEN value ELSE NoValue)
                         ELSE IF k \in Range(r.evicted) THEN NoValue
                         ELSE lastSet[k]]
        /\ touchOrder' = IF r.stored THEN Touch(touchOrder, key) ELSE touchOrder
        /\ trip' = IF r.stored /\ ~hadKey /\ r.evicted = <<>>
                   THEN [phase |-> 1, key |-> key,
                         mem |-> current_memory_usage,
                         size |-> Cardinality(cache_map),
                         mem2 |-> 0, size2 |-> 0]
                   ELSE NoTrip
        /\ UNCHANGED max_memory_bytes

Get(key) ==
    /\ IF key \notin cache_map
       THEN /\ lastOp' = [name |-> "get", key |-> key, value |-> NoValue,
                          ret |-> FALSE, evicted |-> <<>>]
            /\ UNCHANGED <<cache_list, touchOrder>>
       ELSE /\ cache_list' = MoveToFront(cache_list, key)
            /\ lastOp' = [name |-> "get", key |-> key,
                          value |-> FindEntry(cache_list, key).value,
                          ret |-> TRUE, evicted |-> <<>>]
            /\ touchOrder' = Touch(touchOrder, key)
    /\ trip' = NoTrip
    /\ UNCHANGED <<cache_map, current_memory_usage, max_memory_bytes, lastSet>>

Del(key) ==
    /\ IF key \notin cache_map
       THEN /\ lastOp' = [name |-> "del", key |-> key, value |-> NoValue,
                          ret |-> FALSE, evicted |-> <<>>]
            /\ UNCHANGED <<cache_list, cache_map, current_memory_usage,
                           lastSet>>
       ELSE /\ current_memory_usage' = current_memory_usage
                    - ReleasedBytes(FindEntry(cache_list, key))
            /\ cache_list' = EraseEntry(cache_list, key)
            /\ cache_map' = cache_map \ {key}
            /\ lastOp' = [name |-> "del", key |-> key, value |-> NoValue,
                          ret |-> TRUE, evicted |-> <<>>]
            /\ lastSet' = [lastSet EXCEPT ![key] = NoValue]
    /\ trip' = IF trip.phase = 1 /\ trip.key = key
               THEN [trip EXCEPT !.phase = 2,
                                 !.mem2 = current_memory_usage',
                                 !.size2 = Cardinality(cache_map')]
               ELSE IF trip.phase = 2 /\ trip.key = key
               THEN [trip EXCEPT !.phase = 3]
               ELSE NoTrip
    /\ UNCHANGED <<max_memory_bytes, touchOrder>>

\* LRUCache(size_t max_mem)
NewLRU(max_mem) ==
    /\ cache_list = <<>>
    /\ cache_map = {}
    /\ current_memory_usage = 0
    /\ max_memory_bytes = max_mem
    /\ touchOrder = <<>>
    /\ trip = NoTrip

NoOp == [name |-> "new", key |-> <<>>, value |-> NoValue,
         ret |-> FALSE, evicted |-> <<>>]

InitLRU ==
    /\ \E max_mem \in MemLimits : NewLRU(max_mem)
    /\ NoStore
    /\ NoTier
    /\ NoServer
    /\ lastOp = NoOp
    /\ lastSet = [k \in Keys |-> NoValue]

SetStep ==
    /\ \E key \in Keys, value \in Values : Set(key, value)
    /\ UNCHANGED <<logVars, tierVars, serverVars, extVars>>

GetStep ==
    /\ \E key \in Keys : Get(key)
    /\ UNCHANGED <<logVars, tierVars, serverVars, extVars>>

DelStep ==
    /\ \E key \in Keys : Del(key)
    /\ UNCHANGED <<logVars, tierVars, serverVars, extVars>>

NextLRU == SetStep \/ GetStep \/ DelStep

SpecLRU == InitLRU /\ [][NextLRU]_vars

memory_usage == current_memory_usage
max_memory == max_memory_bytes
size == Cardinality(cache_map)

(***************************************************************************)
(* Properties of the LRU map                                               *)
(***************************************************************************)
\* the accounted size of the entries currently stored
AccountedBytes ==
    SumSeq([i \in 1..Len(cache_list) |->
               EntrySize(cache_list[i].key, cache_list[i].value)])

\* C1: memory_usage() equals the sum over the stored entries of key length
\* + value length + the per-entry overhead that set adds; it is 0 when the
\* map is empty.
C1_Accounting == memory_usage = AccountedBytes

\* C2: after every completed set, and so after every set that stores its
\* entry, memory_usage() <= max_memory().
C2_Capacity == lastOp.name = "set" => memory_usage <= max_memory

\* a set has just stored its entry after evicting to make room
C2_Witness ==
    /\ lastOp.name = "set" /\ lastOp.ret /\ lastOp.evicted # <<>>
    /\ memory_usage + EntryOverhead > max_memory

\* C3: a set whose entry's accounted size exceeds max_bytes is rejected and
\* leaves the list, the map, memory_usage() and size() as they were.
C3_OversizedSetChangesNothing ==
    [][(lastOp'.name = "set"
          /\ EntrySize(lastOp'.key, lastOp'.value) > max_memory_bytes)
        => (/\ ~lastOp'.ret
            /\ cache_list' = cache_list
            /\ cache_map' = cache_map
            /\ current_memory_usage' = current_memory_usage)]_vars

\* C4: a get of a key that was set and then neither deleted nor evicted
\* returns true with the value of the most recent set call for the key.
C4_GetReturnsLastSet ==
    (lastOp.name = "get" /\ lastSet[lastOp.key] # NoValue)
        => (lastOp.ret /\ lastOp.value = lastSet[lastOp.key])

\* the stored keys, most recently touched first
ByRecency(stored) == Restrict(touchOrder, stored)

\* the list order is the order of last touches
RecencyOrder == ListKeys(cache_list) = ByRecency(cache_map)

\* a successful get or a storing set puts its key first and keeps the
\* relative order of the other entries that stay
TouchMovesToMRU ==
    (lastOp'.name \in {"get", "set"} /\ lastOp'.ret)
        => /\ cache_list' # <<>>
           /\ Head(cache_list').key = lastOp'.key
           /\ Tail(ListKeys(cache_list'))
                = Restrict(Without(ListKeys(cache_list), lastOp'.key),
                           cache_map')

\* the i-th eviction of a set takes the stored entry, other than the one
\* being set, whose last touch is the oldest
EvictsOldest ==
    lastOp'.name = "set"
        => \A i \in 1..Len(lastOp'.evicted) :
              LET gone == {lastOp'.key}
                             \cup {lastOp'.evicted[j] : j \in 1..(i - 1)}
                  left == ByRecency(cache_map \ gone)
              IN  left # <<>> /\ lastOp'.evicted[i] = left[Len(left)]

\* C5: the list order is the recency order; a successful get or a storing
\* set moves its key to the MRU end and keeps the order of the others; every
\* eviction removes the entry whose last touch is the oldest.
C5_Recency ==
    []RecencyOrder /\ [][TouchMovesToMRU /\ EvictsOldest]_vars

\* a set evicted exactly one entry, the older of two, and kept the other
C5_Witness ==
    /\ lastOp.name = "set" /\ lastOp.ret /\ Len(lastOp.evicted) = 1
    /\ Len(cache_list) = 2
    /\ cache_list[1].key = lastOp.key

\* C6: a set(k, v) that stores without evicting, from a state without k,
\* followed by del(k): del returns true and memory_usage() and size() are
\* back at their values before the set; a second del(k) returns false and
\* changes nothing.
C6_SetDelRoundTrip ==
    /\ trip.phase = 2 =>
          /\ lastOp.ret
          /\ memory_usage = trip.mem
          /\ size = trip.size
    /\ trip.phase = 3 =>
          /\ ~lastOp.ret
          /\ memory_usage = trip.mem2
          /\ size = trip.size2

\* C37: a set(K, V) whose entry's accounted size is at most max_bytes
\* stores the entry, whatever calls of set, get and del came before: it is
\* not rejected as too large.
C37_FittingSetIsStored ==
    (lastOp.name = "set"
       /\ EntrySize(lastOp.key, lastOp.value) <= max_memory_bytes)
        => /\ lastOp.ret
           /\ lastOp.key \in cache_map
           /\ cache_list # <<>>
           /\ cache_list[1] = [key |-> lastOp.key, value |-> lastOp.value]

\* C38: after any calls of set, get and del the lookup map and the recency
\* list hold the same keys, each key once in the list, the handle of a key
\* (the list entry found for it) carries that key, and size() is the number
\* of list entries.
C38_MapAndListAgree ==
    /\ Range(ListKeys(cache_list)) = cache_map
    /\ \A i, j \in 1..Len(cache_list) :
          cache_list[i].key = cache_list[j].key => i = j
    /\ \A k \in cache_map : FindEntry(cache_list, k).key = k
    /\ size = Len(cache_list)

C38_Witness ==
    /\ lastOp.name = "del" /\ lastOp.ret
    /\ Len(cache_list) = 1
    /\ \E k \in cache_map : k # lastOp.key /\ lastSet[k] # NoValue
    /\ current_memory_usage > EntrySize(cache_list[1].key, cache_list[1].value)

(***************************************************************************)
(* Trie (part-b/lib/tire.h): a node is named by its path from the root     *)
(***************************************************************************)
NewNode == [file_offset |-> -1, isDeleted |-> FALSE]

\* Trie(): the root alone
NewTrie == (<<>> :> NewNode)

Prefixes(key) == {SubSeq(key, 1, n) : n \in 0..Len(key)}

\* Trie::insert
TrieInsert(trie, key, offset) ==
    [p \in (DOMAIN trie) \cup Prefixes(key) |->
        IF p = key THEN [file_offset |-> offset, isDeleted |-> FALSE]
        ELSE IF p \in DOMAIN trie THEN trie[p]
        ELSE NewNode]

\* variant: the deleted mark of the node is not looked at
TrieSearch_IgnoreDeleted(trie, key) ==
    IF key \notin DOMAIN trie THEN -1
    ELSE trie[key].file_offset

\* Trie::search
TrieSearch(trie, key) ==
    IF key \notin DOMAIN trie THEN -1
    ELSE IF trie[key].isDeleted THEN -1
    ELSE trie[key].file_offset

\* Trie::remove
TrieRemove(trie, key) ==
    IF key \notin DOMAIN trie THEN trie
    ELSE [trie EXCEPT ![key].isDeleted = TRUE]

(***************************************************************************)
(* BloomFilter (lib/bloomfilter.h)                                         *)
(***************************************************************************)
CharCode(c) ==
    CASE c = "a" -> 97 [] c = "b" -> 98 [] c = "x" -> 120 [] c = "y" -> 121
      [] OTHER -> 0

\* std::hash of the key bytes: some fixed function of the bytes
StdHash(key) == SumSeq([i \in 1..Len(key) |-> CharCode(key[i])])

\* BloomFilter::hashKey
hashKey(key, fsize) == StdHash(key) % fsize

\* BloomFilter::BloomFilter
NewFilter(fsize) == [i \in 0..(fsize - 1) |-> 0]

\* BloomFilter::insert
FilterInsert(filter, key) ==
    [filter EXCEPT ![hashKey(key, filter_size)] = @ + 1]

\* BloomFilter::contains
FilterContains(filter, key) == filter[hashKey(key, filter_size)] > 0

\* BloomFilter::remove
FilterRemove(filter, key) ==
    IF filter[hashKey(key, filter_size)] = 0 THEN filter
    ELSE [filter EXCEPT ![hashKey(key, filter_size)] = @ - 1]

(***************************************************************************)
(* Reading the log file: positions are byte offsets, 0 is the first byte   *)
(***************************************************************************)
IsSpace(c) == c \in {SP, LF}

\* a scan of f from pos stops at the least of the positions hits, at the end
\* of f when there is none; past the end it does not move
FirstStop(f, pos, hits) ==
    IF pos >= Len(f) THEN pos
    ELSE IF hits = {} THEN Len(f)
    ELSE CHOOSE p \in hits : \A q \in hits : p <= q

\* the first position at or after pos that holds no white space
SkipWs(f, pos) ==
    FirstStop(f, pos, {p \in pos..(Len(f) - 1) : ~IsSpace(f[p + 1])})

\* the first position at or after pos that holds white space, or the end
TokenEnd(f, pos) ==
    FirstStop(f, pos, {p \in pos..(Len(f) - 1) : IsSpace(f[p + 1])})

\* the first position at or after pos that holds a line feed, or the end
LineEnd(f, pos) ==
    FirstStop(f, pos, {p \in pos..(Len(f) - 1) : f[p + 1] = LF})

\* stream >> token, from position pos
ReadToken(f, pos) ==
    LET s == SkipWs(f, pos)
        e == TokenEnd(f, s)
    IN  [ok |-> s < Len(f), tok |-> SubSeq(f, s + 1, e), pos |-> e]

\* std::getline(stream >> std::ws, line), from position pos
ReadLine(f, pos) ==
    LET s == SkipWs(f, pos)
        e == LineEnd(f, s)
    IN  [ok |-> s < Len(f), line |-> SubSeq(f, s + 1, e)]

\* stream << key << " " << value << std::endl
Record(key, value) == key \o <<SP>> \o value \o <<LF>>

(***************************************************************************)
(* PersistenceKVStore (part-b/lib/persistence_kv_store.h)                  *)
(***************************************************************************)
\* the store after insert(key, value)
InsertResult(st, key, value) ==
    [file |-> st.file \o Record(key, value),
     index |-> TrieInsert(st.index, key, Len(st.file)),
     filter |-> FilterInsert(st.filter, key)]

\* what get(key) returns from the store st
GetResult(st, key) ==
    LET miss == [ret |-> FALSE, value |-> NoValue]
        offset == TrieSearch(st.index, key)
        k == ReadToken(st.file, offset)
        v == ReadLine(st.file, k.pos)
    IN  IF ~FilterContains(st.filter, key) THEN miss
        ELSE IF offset = -1 THEN miss
        ELSE IF ~k.ok \/ k.tok # key THEN miss
        ELSE IF ~v.ok \/ v.line = <<>> THEN miss
        ELSE [ret |-> TRUE, value |-> v.line]

\* the store after remove(key)
RemoveResult(st, key) ==
    [file |-> st.file,
     index |-> TrieRemove(st.index, key),
     filter |-> FilterRemove(st.filter, key)]

\* if (key_offset == curr_pos + 1)
IsLatest(key_offset, curr_pos) == key_offset = curr_pos + 1

\* the scan loop of triggerRewrite: temp is the temporary file so far
RECURSIVE RewriteScan(_, _, _, _, _)
RewriteScan(f, pos, trie, temp, built) ==
    LET k == ReadToken(f, pos)
        v == ReadToken(f, k.pos)
        key_offset == TrieSearch(trie, k.tok)
    IN  IF ~k.ok \/ ~v.ok THEN [file |-> temp, index |-> built]
        ELSE IF key_offset = -1
        THEN RewriteScan(f, v.pos, trie, temp, built)
        ELSE IF IsLatest(key_offset, pos)
        THEN RewriteScan(f, v.pos, trie, temp \o Record(k.tok, v.tok),
                         TrieInsert(built, k.tok, Len(temp)))
        ELSE RewriteScan(f, v.pos, trie, temp, built)

\* the store after a pass of triggerRewrite with no request in between
RewriteResult(st) ==
    LET r == RewriteScan(st.file, 0, st.index, <<>>, NewTrie)
    IN  [file |-> r.file, index |-> r.index, filter |-> st.filter]

\* the scan loop of syncIndex: offset is tellg() before the record is read
RECURSIVE SyncScan(_, _, _, _)
SyncScan(f, pos, trie, filter) ==
    LET k == ReadToken(f, pos)
        v == ReadToken(f, k.pos)
    IN  IF ~k.ok \/ ~v.ok THEN [index |-> trie, filter |-> filter]
        ELSE SyncScan(f, v.pos, TrieInsert(trie, k.tok, pos),
                      FilterInsert(filter, k.tok))

\* the store that the constructor builds over the file f
SyncResult(f, fsize) ==
    LET r == SyncScan(f, 0, NewTrie, NewFilter(fsize))
    IN  [file |-> f, index |-> r.index, filter |-> r.filter]

Store == [file |-> dataFile, index |-> index, filter |-> bloomFilter]

SetStore(st) ==
    /\ dataFile' = st.file
    /\ index' = st.index
    /\ bloomFilter' = st.filter
    /\ UNCHANGED filter_size

\* the caps of the model: the file and the counters stay small
CanInsert(st, key, value) ==
    /\ Len(st.file) + Len(Record(key, value)) <= MaxFileLen
    /\ st.filter[hashKey(key, filter_size)] < MaxCount

\* PersistenceKVStore(_dbname, _bloom_filter_size) on a new file
NewStore(fsize) ==
    /\ dataFile = <<>>
    /\ index = NewTrie
    /\ bloomFilter = NewFilter(fsize)
    /\ filter_size = fsize
    /\ removed = [k \in Keys |-> FALSE]

LogInsert(key, value) ==
    /\ CanInsert(Store, key, value)
    /\ SetStore(InsertResult(Store, key, value))
    /\ removed' = [removed EXCEPT ![key] = FALSE]
    /\ lastOp' = [name |-> "insert", key |-> key, value |-> value,
                  ret |-> TRUE, evicted |-> <<>>]
    /\ lastSet' = [lastSet EXCEPT ![key] = value]

LogGet(key) ==
    /\ lastOp' = [name |-> "get", key |-> key,
                  value |-> GetResult(Store, key).value,
                  ret |-> GetResult(Store, key).ret, evicted |-> <<>>]
    /\ UNCHANGED <<logVars, lastSet>>

LogRemove(key) ==
    /\ SetStore(RemoveResult(Store, key))
    /\ removed' = [removed EXCEPT ![key] = TRUE]
    /\ lastOp' = [name |-> "remove", key |-> key, value |-> NoValue,
                  ret |-> TRUE, evicted |-> <<>>]
    /\ lastSet' = [lastSet EXCEPT ![key] = NoValue]

\* startRewriteScheduler: a pass of the compactor
Rewrite ==
    /\ SetStore(RewriteResult(Store))
    /\ UNCHANGED removed
    /\ lastOp' = [name |-> "rewrite", key |-> <<>>, value |-> NoValue,
                  ret |-> TRUE, evicted |-> <<>>]
    /\ UNCHANGED lastSet

\* ~PersistenceKVStore() followed by PersistenceKVStore(_dbname, fsize) on
\* the file that is there
Reopen ==
    /\ dataFile # <<>>
    /\ SetStore(SyncResult(dataFile, filter_size))
    /\ lastOp' = [name |-> "reopen", key |-> <<>>, value |-> NoValue,
                  ret |-> TRUE, evicted |-> <<>>]
    /\ UNCHANGED <<removed, lastSet>>

InitLog ==
    /\ \E fsize \in 1..MaxFilterSize : NewStore(fsize)
    /\ NewLRU(0)
    /\ NoTier
    /\ NoServer
    /\ lastOp = NoOp
    /\ lastSet = [k \in Keys |-> NoValue]

LogInsertStep ==
    /\ \E key \in Keys, value \in LogValues : LogInsert(key, value)
    /\ UNCHANGED <<lruVars, tierVars, serverVars, extVars>>

LogGetStep ==
    /\ \E key \in Keys : LogGet(key)
    /\ UNCHANGED <<lruVars, tierVars, serverVars, extVars>>

LogRemoveStep ==
    /\ \E key \in Keys : LogRemove(key)
    /\ UNCHANGED <<lruVars, tierVars, serverVars, extVars>>

RewriteStep ==
    /\ Rewrite
    /\ UNCHANGED <<lruVars, tierVars, serverVars, extVars>>

NextLog == LogInsertStep \/ LogGetStep \/ LogRemoveStep \/ RewriteStep

SpecLog == InitLog /\ [][NextLog]_vars

ReopenStep ==
    /\ Reopen
    /\ UNCHANGED <<lruVars, tierVars, serverVars, extVars>>

\* the store across restarts of the process
NextLogRestart == NextLog \/ ReopenStep

SpecLogRestart == InitLog /\ [][NextLogRestart]_vars

(***************************************************************************)
(* Properties of the append-only log                                       *)
(***************************************************************************)
\* the offsets at which a record of the key starts in the file
RECURSIVE RecordOffsets(_, _, _)
RecordOffsets(f, pos, key) ==
    LET k == ReadToken(f, pos)
        v == ReadToken(f, k.pos)
        start == SkipWs(f, pos)
    IN  IF ~k.ok \/ ~v.ok THEN {}
        ELSE (IF k.tok = key THEN {start} ELSE {})
                \cup RecordOffsets(f, v.pos, key)

Max(S) == CHOOSE x \in S : \A y \in S : y <= x

\* the index entry of the key points to the latest record of the key
PointsToLatest(key) ==
    /\ RecordOffsets(dataFile, 0, key) # {}
    /\ TrieSearch(index, key) = Max(RecordOffsets(dataFile, 0, key))

\* C10: after insert(K, V) and no later remove(K), get(K) returns V, the
\* value of the latest insert for K, whatever happened to other keys in
\* between, and the index entry of a live key points to its latest record.
C10_GetReturnsLatestInsert ==
    /\ (lastOp.name = "get" /\ lastSet[lastOp.key] # NoValue)
          => (lastOp.ret /\ lastOp.value = lastSet[lastOp.key])
    /\ \A k \in Keys : lastSet[k] # NoValue => PointsToLatest(k)

\* the key has a record in the file that get could reach through the filter
HasReachableRecord(key) ==
    /\ RecordOffsets(dataFile, 0, key) # {}
    /\ FilterContains(bloomFilter, key)

\* what the step of remove(K) changes: no byte of the file, the index
\* answer of K alone, and the bucket of K by one when it is not 0
RemoveOnlyMarks ==
    LET K == lastOp'.key
    IN  /\ dataFile' = dataFile
        /\ TrieSearch(index', K) = -1
        /\ \A k \in Keys \ {K} : TrieSearch(index', k) = TrieSearch(index, k)
        /\ DOMAIN bloomFilter' = DOMAIN bloomFilter
        /\ \A h \in DOMAIN bloomFilter :
              bloomFilter'[h] =
                 IF h = hashKey(K, filter_size) /\ bloomFilter[h] > 0
                 THEN bloomFilter[h] - 1 ELSE bloomFilter[h]

StoreAfter == [file |-> dataFile', index |-> index', filter |-> bloomFilter']

\* the key has a non-deleted index entry
Live(key) == TrieSearch(index, key) # -1

\* a pass keeps the key: still live, same answer of get, and its index
\* offset is the start of a record of the key inside the new file
KeptByPass(key) ==
    /\ TrieSearch(index', key) # -1
    /\ GetResult(StoreAfter, key) = GetResult(Store, key)
    /\ TrieSearch(index', key) \in RecordOffsets(dataFile', 0, key)
    /\ TrieSearch(index', key) < Len(dataFile')

\* C12: a compaction pass with no concurrent request keeps every live key:
\* K is still live after the pass, get(K) returns the same value as
\* before, and the index offset of K is the start of K's record in the new
\* file.
C12_CompactionKeepsLiveKeys ==
    [][lastOp'.name = "rewrite"
         => \A k \in Keys : Live(k) => KeptByPass(k)]_vars

\* C13: after a compaction pass the file holds exactly one record per live
\* key and no record of any other key: nothing of a removed key and no
\* superseded record survives.
C13_OneRecordPerLiveKey ==
    [][lastOp'.name = "rewrite"
         => \A k \in Keys :
               Cardinality(RecordOffsets(dataFile', 0, k))
                  = IF Live(k) THEN 1 ELSE 0]_vars

\* C14: the filter contains every key that has a non-deleted index entry.
C14_FilterSoundness ==
    \A k \in Keys : Live(k) => FilterContains(bloomFilter, k)

\* the value of the latest record of the key in the file
LatestValue(key) ==
    LET start == Max(RecordOffsets(dataFile, 0, key))
    IN  ReadToken(dataFile, ReadToken(dataFile, start).pos).tok

\* C15: after the store is closed and reopened, every key that has a record
\* in the file is mapped by the index to its latest record, get(K) returns
\* the value of that record, and the filter contains the key.
C15_RestartRebuilds ==
    lastOp.name = "reopen"
        => \A k \in Keys :
              RecordOffsets(dataFile, 0, k) # {}
                 => /\ PointsToLatest(k)
                    /\ GetResult(Store, k)
                          = [ret |-> TRUE, value |-> LatestValue(k)]
                    /\ FilterContains(bloomFilter, k)

\* C31: a key whose record was in the file at startup, indexed by syncIndex
\* and retrievable then, and that is not inserted or removed afterwards, is
\* still retrievable with the same value after a pass of the compactor.
C31_StartupKeysSurvivePasses ==
    [][(lastOp.name = "reopen" /\ lastOp'.name = "rewrite")
          => \A k \in Keys :
                GetResult(Store, k).ret
                   => GetResult(Store, k)' = GetResult(Store, k)]_vars

\* C32: a remove is durable across a restart: when remove(K) was called and
\* K was not inserted again, get(K) reports a miss once the store was
\* closed and reopened, whether a pass of the compactor ran or not.
C32_RemoveSurvivesRestart ==
    [][lastOp'.name = "reopen"
          => \A k \in Keys : removed[k] => ~GetResult(Store, k)'.ret]_vars

(***************************************************************************)
(* Two-tier store: LRUCache of part-a/lib/lru_cache.h with its storage     *)
(***************************************************************************)
\* getSize((char *)key) + getNodeSize(node)
TierBytes(node) == Len(node.key) + (Len(node.key) + Len(node.value))

\* getNodeSize(node)
NodeSize(node) == Len(node.key) + Len(node.value)

\* remove(node): unlink the node of the key
Unlink(list, key) == SelectSeq(list, LAMBDA n : n.key # key)

\* add(node): link the node right after head
AddFront(list, node) == <<node>> \o list

\* dict.find(key) as a node
FindNode(list, key) == CHOOSE n \in Range(list) : n.key = key

\* if (current_memory_usage >= max_memory_bytes)
MustEvict(mem, max) == mem >= max

\* the insert-or-replace part of set
TierPut(t, key, value) ==
    LET node == [key |-> key, value |-> value]
    IN  IF key \in t.dict
        THEN [list |-> AddFront(Unlink(t.list, key), node),
              dict |-> t.dict,
              mem |-> t.mem + NodeSize(node)
                        - NodeSize(FindNode(t.list, key))]
        ELSE [list |-> AddFront(t.list, node),
              dict |-> t.dict \cup {key},
              mem |-> t.mem + TierBytes(node)]

\* the eviction part of set: the node before tail goes to the storage
TierEvict(t) ==
    LET nodeToDelete == t.list[Len(t.list)]
    IN  [list |-> Unlink(t.list, nodeToDelete.key),
         dict |-> t.dict \ {nodeToDelete.key},
         mem |-> t.mem - TierBytes(nodeToDelete)]

Tier == [list |-> tier_list, dict |-> tier_dict, mem |-> tier_memory_usage]

SetTier(t) ==
    /\ tier_list' = t.list
    /\ tier_dict' = t.dict
    /\ tier_memory_usage' = t.mem
    /\ UNCHANGED tier_max_memory_bytes

\* LRUCache::set of the two-tier store
TierSet(key, value) ==
    LET t1 == TierPut(Tier, key, value)
        evicts == MustEvict(t1.mem, tier_max_memory_bytes)
        victim == t1.list[Len(t1.list)]
    IN  /\ evicts => CanInsert(Store, victim.key, victim.value)
        /\ IF evicts
           THEN /\ SetStore(InsertResult(Store, victim.key, victim.value))
                /\ removed' = [removed EXCEPT ![victim.key] = FALSE]
                /\ SetTier(TierEvict(t1))
           ELSE /\ UNCHANGED logVars
                /\ SetTier(t1)
        /\ lastOp' = [name |-> "set", key |-> key, value |-> value,
                      ret |-> TRUE,
                      evicted |-> IF evicts THEN <<victim.key>> ELSE <<>>]
        /\ lastSet' = [lastSet EXCEPT ![key] = value]
        /\ spilled' = [k \in Keys |->
                         IF evicts /\ k = victim.key THEN victim.value
                         ELSE IF k = key THEN NoValue
                         ELSE spilled[k]]
        /\ deleted' = [deleted EXCEPT ![key] = FALSE]

\* LRUCache::get of the two-tier store; a miss is the string "-1"
TierGet(key) ==
    LET r == GetResult(Store, key)
        node == [key |-> key, value |-> r.value]
    IN  /\ IF key \in tier_dict
           THEN /\ SetTier([list |-> AddFront(Unlink(tier_list, key),
                                               FindNode(tier_list, key)),
                            dict |-> tier_dict,
                            mem |-> tier_memory_usage])
                /\ lastOp' = [name |-> "get", key |-> key,
                              value |-> FindNode(tier_list, key).value,
                              ret |-> TRUE, evicted |-> <<>>]
           ELSE IF r.ret
           THEN /\ SetTier([list |-> AddFront(tier_list, node),
                            dict |-> tier_dict \cup {key},
                            mem |-> tier_memory_usage + TierBytes(node)])
                /\ lastOp' = [name |-> "get", key |-> key, value |-> r.value,
                              ret |-> TRUE, evicted |-> <<>>]
           ELSE /\ SetTier(Tier)
                /\ lastOp' = [name |-> "get", key |-> key, value |-> NoValue,
                              ret |-> FALSE, evicted |-> <<>>]
        /\ UNCHANGED <<logVars, lastSet, spilled, deleted>>

\* LRUCache::del of the two-tier store
TierDel(key) ==
    /\ IF key \in tier_dict
       THEN /\ SetTier([list |-> Unlink(tier_list, key),
                        dict |-> tier_dict \ {key},
                        mem |-> tier_memory_usage
                                  - TierBytes(FindNode(tier_list, key))])
            /\ lastOp' = [name |-> "del", key |-> key, value |-> NoValue,
                          ret |-> TRUE, evicted |-> <<>>]
       ELSE /\ SetTier(Tier)
            /\ lastOp' = [name |-> "del", key |-> key, value |-> NoValue,
                          ret |-> FALSE, evicted |-> <<>>]
    /\ lastSet' = [lastSet EXCEPT ![key] = NoValue]
    /\ spilled' = [spilled EXCEPT ![key] = NoValue]
    /\ deleted' = [deleted EXCEPT ![key] = TRUE]
    /\ UNCHANGED logVars

\* LRUCache(max_mem) : storage("./blink")
InitTier ==
    /\ \E fsize \in 1..MaxFilterSize : NewStore(fsize)
    /\ NewLRU(0)
    /\ tier_list = <<>>
    /\ tier_dict = {}
    /\ tier_memory_usage = 0
    /\ tier_max_memory_bytes = TierMaxMem
    /\ spilled = [k \in Keys |-> NoValue]
    /\ deleted = [k \in Keys |-> FALSE]
    /\ NoServer
    /\ lastOp = NoOp
    /\ lastSet = [k \in Keys |-> NoValue]

TierSetStep ==
    /\ \E key \in Keys, value \in LogValues : TierSet(key, value)
    /\ UNCHANGED <<lruVars, serverVars, extVars>>

TierGetStep ==
    /\ \E key \in Keys : TierGet(key)
    /\ UNCHANGED <<lruVars, serverVars, extVars>>

TierDelStep ==
    /\ \E key \in Keys : TierDel(key)
    /\ UNCHANGED <<lruVars, serverVars, extVars>>

\* the compactor thread of the storage
TierRewriteStep ==
    /\ Rewrite
    /\ UNCHANGED <<lruVars, tierVars, serverVars, extVars>>

NextTier == TierSetStep \/ TierGetStep \/ TierDelStep \/ TierRewriteStep

SpecTier == InitTier /\ [][NextTier]_vars

\* the two-tier store used with set and get only
NextTierSetGet == TierSetStep \/ TierGetStep \/ TierRewriteStep

SpecTierSetGet == InitTier /\ [][NextTierSetGet]_vars

(***************************************************************************)
(* Properties of the two-tier store                                        *)
(***************************************************************************)
\* the file ends with the given record
EndsWith(f, rec) ==
    /\ Len(f) >= Len(rec)
    /\ SubSeq(f, Len(f) - Len(rec) + 1, Len(f)) = rec

\* C7: when set evicts an entry, its (key, value) is in the log when it
\* leaves the LRU, and a later get of the evicted key returns the value it
\* had when evicted and leaves the key stored in the LRU at the MRU end.
C7_SpillAndRehydrate ==
    /\ (lastOp.name = "set" /\ lastOp.evicted # <<>>)
          => LET k == lastOp.evicted[1]
             IN  /\ spilled[k] # NoValue
                 /\ EndsWith(dataFile, Record(k, spilled[k]))
                 /\ k \notin tier_dict
    /\ (lastOp.name = "get" /\ spilled[lastOp.key] # NoValue)
          => /\ lastOp.ret
             /\ lastOp.value = spilled[lastOp.key]
             /\ lastOp.key \in tier_dict
             /\ tier_list # <<>>
             /\ Head(tier_list).key = lastOp.key

\* C8: after del(K), get(K) reports a miss until the next set(K, .),
\* wherever K was stored at the time of the del.
C8_DelRemovesBothTiers ==
    (lastOp.name = "get" /\ deleted[lastOp.key]) => ~lastOp.ret

\* C9: with set and get only, get(K) returns the value of the most recent
\* set(K, .), and what a hit returns is the value of the copy in the LRU.
C9_TierGetReturnsLastSet ==
    /\ (lastOp.name = "get" /\ lastSet[lastOp.key] # NoValue)
          => (lastOp.ret /\ lastOp.value = lastSet[lastOp.key])
    /\ (lastOp.name = "get" /\ lastOp.ret)
          => /\ lastOp.key \in tier_dict
             /\ FindNode(tier_list, lastOp.key).value = lastOp.value

\* C33: in the two-tier store the memory usage of the LRU is at most
\* max_memory_bytes after every completed set and after every completed
\* get, a get that brings an entry back from the log included.
C33_TierWithinCapacity ==
    lastOp.name \in {"set", "get"}
        => tier_memory_usage <= tier_max_memory_bytes

(***************************************************************************)
(* Characters, numbers and std::string operations of the RESP code.        *)
(* A size_t of 2^63 or more is written as the negative number that has     *)
(* the same 64 bits, so that npos is -1 and npos + 2 is 1.                 *)
(***************************************************************************)
CR == "\r"

CRLF == <<CR, LF>>

Digits == <<"0", "1", "2", "3", "4", "5", "6", "7", "8", "9">>

LowerCase == <<"a", "b", "c", "d", "e", "f", "g", "h", "i", "j", "k", "l", "m",
               "n", "o", "p", "q", "r", "s", "t", "u", "v", "w", "x", "y", "z">>

UpperCase == <<"A", "B", "C", "D", "E", "F", "G", "H", "I", "J", "K", "L", "M",
               "N", "O", "P", "Q", "R", "S", "T", "U", "V", "W", "X", "Y", "Z">>

IsDigit(c) == \E d \in 1..10 : Digits[d] = c

DigitVal(c) == (CHOOSE d \in 1..10 : Digits[d] = c) - 1

\* ::toupper and ::tolower over a string
ToUpper(s) ==
    [i \in 1..Len(s) |->
        IF \E n \in 1..26 : LowerCase[n] = s[i]
        THEN UpperCase[CHOOSE n \in 1..26 : LowerCase[n] = s[i]] ELSE s[i]]

ToLower(s) ==
    [i \in 1..Len(s) |->
        IF \E n \in 1..26 : UpperCase[n] = s[i]
        THEN LowerCase[CHOOSE n \in 1..26 : UpperCase[n] = s[i]] ELSE s[i]]

\* std::to_string and operator<< of a number
RECURSIVE NatString(_)
NatString(n) ==
    IF n < 10 THEN <<Digits[n + 1]>>
    ELSE NatString(n \div 10) \o <<Digits[(n % 10) + 1]>>

to_string(n) == IF n < 0 THEN <<"-">> \o NatString(-n) ELSE NatString(n)

\* the largest int
IntMax == 2147483647

\* the white space that strtol skips
IsBlank(c) == c \in {SP, LF, CR, "\t"}

RECURSIVE SkipBlank(_, _)
SkipBlank(s, i) ==
    IF i <= Len(s) /\ IsBlank(s[i]) THEN SkipBlank(s, i + 1) ELSE i

\* the digits from index i on: their value, the index after them, and
\* whether the value left the range of int
RECURSIVE ReadDigits(_, _, _)
ReadDigits(s, i, acc) ==
    IF i <= Len(s) /\ IsDigit(s[i])
    THEN IF acc > (IntMax - DigitVal(s[i])) \div 10
         THEN [val |-> acc, next |-> i + 1, over |-> TRUE]
         ELSE ReadDigits(s, i + 1, acc * 10 + DigitVal(s[i]))
    ELSE [val |-> acc, next |-> i, over |-> FALSE]

\* std::stoi(s): ok is FALSE where it throws std::invalid_argument (no
\* digits) or std::out_of_range
StoI(s) ==
    LET i == SkipBlank(s, 1)
        signed == i <= Len(s) /\ s[i] \in {"-", "+"}
        neg == i <= Len(s) /\ s[i] = "-"
        j == IF signed THEN i + 1 ELSE i
        d == ReadDigits(s, j, 0)
    IN  IF d.next = j \/ d.over THEN [ok |-> FALSE, val |-> 0]
        ELSE [ok |-> TRUE, val |-> IF neg THEN 0 - d.val ELSE d.val]

\* std::string::npos
NPos == -1

\* pos >= input.length(), compared as size_t
AtOrPast(pos, length) == pos < 0 \/ pos >= length

\* input.find("\r\n", pos)
Find(s, pos) ==
    LET hits == {i \in 0..(Len(s) - 2) :
                    i >= pos /\ s[i + 1] = CR /\ s[i + 2] = LF}
    IN  IF pos < 0 \/ hits = {} THEN NPos
        ELSE CHOOSE i \in hits : \A h \in hits : i <= h

\* input.substr(pos, count) throws std::out_of_range
SubStrThrows(s, pos) == pos < 0 \/ pos > Len(s)

\* input.substr(pos, count), count a size_t
SubStr(s, pos, count) ==
    IF count < 0 \/ pos + count > Len(s) THEN SubSeq(s, pos + 1, Len(s))
    ELSE SubSeq(s, pos + 1, pos + count)

(***************************************************************************)
(* Client::encode_command (lib/client.h)                                   *)
(***************************************************************************)
\* while (iss >> token) command.push_back(token)
RECURSIVE Tokens(_, _)
Tokens(line, pos) ==
    LET t == ReadToken(line, pos)
    IN  IF ~t.ok THEN <<>> ELSE <<t.tok>> \o Tokens(line, t.pos)

\* "$" << arg.length() << "\r\n" << arg << "\r\n"
BulkString(arg) == <<"$">> \o to_string(Len(arg)) \o CRLF \o arg \o CRLF

RECURSIVE BulkStrings(_)
BulkStrings(args) ==
    IF args = <<>> THEN <<>>
    ELSE BulkString(Head(args)) \o BulkStrings(Tail(args))

\* "*" << command.size() << "\r\n" and then the bulk string of every arg
ArrayOf(args) == <<"*">> \o to_string(Len(args)) \o CRLF \o BulkStrings(args)

EncodeCommand(line) == ArrayOf(Tokens(line, 0))

\* the command line that names the given arguments
RECURSIVE Join(_)
Join(args) ==
    IF args = <<>> THEN <<>>
    ELSE IF Len(args) = 1 THEN Head(args)
    ELSE Head(args) \o <<SP>> \o Join(Tail(args))

\* Client::set, Client::get and Client::del build these lines
SetLine(key, value) == <<"S", "E", "T", " ">> \o key \o <<SP>> \o value
GetLine(key) == <<"G", "E", "T", " ">> \o key
DelLine(key) == <<"D", "E", "L", " ">> \o key

(***************************************************************************)
(* Server::parse_resp (lib/server.h)                                       *)
(***************************************************************************)
\* variant: the payload is taken one byte short
Payload_OneShort(input, pos, str_len) == SubStr(input, pos, str_len - 1)

\* result.push_back(input.substr(pos, str_len))
Payload(input, pos, str_len) == SubStr(input, pos, str_len)

\* variant: the CRLF after the payload is not skipped
AfterPayload_NoCRLF(pos, str_len) == pos + str_len

\* pos += str_len + 2
AfterPayload(pos, str_len) == pos + str_len + 2

Parsed(result) == [crash |-> FALSE, result |-> result]

\* std::stoi threw and nothing catches it: std::terminate
Thrown == [crash |-> TRUE, result |-> <<>>]

\* the for loop of parse_resp, at round i with the elements read so far
RECURSIVE ParseBulk(_, _, _, _, _)
ParseBulk(input, pos, i, array_len, result) ==
    IF i >= array_len THEN Parsed(result)
    ELSE IF AtOrPast(pos, Len(input)) THEN Parsed(result)
    ELSE IF input[pos + 1] # "$"
    THEN \* this round and every later one leave pos and result as they are
         Parsed(result)
    ELSE LET newline == Find(input, pos + 1)
             str_len == StoI(SubStr(input, pos + 1, newline - (pos + 1)))
             start == newline + 2
         IN  IF ~str_len.ok \/ SubStrThrows(input, start) THEN Thrown
             ELSE ParseBulk(input, AfterPayload(start, str_len.val), i + 1,
                            array_len,
                            Append(result,
                                   Payload(input, start, str_len.val)))

ParseResp(input) ==
    IF input = <<>> THEN Parsed(<<>>)
    ELSE IF input[1] # "*" THEN Parsed(<<>>)
    ELSE LET newline == Find(input, 1)
             array_len == StoI(SubStr(input, 1, newline - 1))
         IN  IF ~array_len.ok THEN Thrown
             ELSE ParseBulk(input, newline + 2, 0, array_len.val, <<>>)

(***************************************************************************)
(* Server::encode_resp and Server::handle_command (lib/server.h)           *)
(***************************************************************************)
\* encode_resp(response, true)
ErrorReply(msg) == <<"-", "E", "R", "R", " ">> \o msg \o CRLF

\* encode_resp(response, false)
SimpleReply(msg) ==
    IF msg = <<>> THEN <<"$", "-", "1", "\r", "\n">> ELSE <<"+">> \o msg \o CRLF

NullReply == <<"$", "-", "1", "\r", "\n">>

\* "$" + std::to_string(value.length()) + "\r\n" + value + "\r\n"
BulkReply(value) == <<"$">> \o to_string(Len(value)) \o CRLF \o value \o CRLF

\* ":" + std::to_string(count) + "\r\n"
IntegerReply(count) == <<":">> \o to_string(count) \o CRLF

MsgInvalid == <<"I", "n", "v", "a", "l", "i", "d", " ", "c", "o", "m", "m", "a", "n", "d">>
MsgSetArgs == <<"S", "E", "T", " ", "c", "o", "m", "m", "a", "n", "d", " ", "r", "e", "q", "u", "i", "r", "e", "s", " ", "k", "e", "y", " ", "a", "n", "d", " ", "v", "a", "l", "u", "e">>
MsgGetArgs == <<"G", "E", "T", " ", "c", "o", "m", "m", "a", "n", "d", " ", "r", "e", "q", "u", "i", "r", "e", "s", " ", "k", "e", "y">>
MsgDelArgs == <<"D", "E", "L", " ", "c", "o", "m", "m", "a", "n", "d", " ", "r", "e", "q", "u", "i", "r", "e", "s", " ", "k", "e", "y">>
MsgConfigArgs == <<"C", "O", "N", "F", "I", "G", " ", "c", "o", "m", "m", "a", "n", "d", " ", "r", "e", "q", "u", "i", "r", "e", "s", " ", "s", "u", "b", "c", "o", "m", "m", "a", "n", "d">>
MsgConfigHelp ==
    <<"S", "u", "p", "p", "o", "r", "t", "e", "d", " ", "C", "O", "N", "F", "I", "G", " ", "c", "o", "m", "m", "a", "n", "d", "s", ":", " ", "G", "E", "T", " ", "m", "a", "x", "m", "e", "m", "o", "r", "y", ",", " ", "G", "E", "T", " ", "m", "a", "x", "m", "e", "m", "o", "r", "y", "-", "p", "o", "l", "i", "c", "y">>
MsgUnknown == <<"U", "n", "k", "n", "o", "w", "n", " ", "c", "o", "m", "m", "a", "n", "d">>
MsgOK == <<"O", "K">>

\* variant: a rejected entry is reported
SetReply_ErrorWhenRejected(kept) ==
    IF kept THEN SimpleReply(MsgOK) ELSE ErrorReply(MsgInvalid)

\* response = "OK"; encode_resp(response, false), whatever set did
SetReply(kept) == SimpleReply(MsgOK)

\* database_: the LRUCache of the worker
Db == [list |-> cache_list, map |-> cache_map, mem |-> current_memory_usage]

\* database_.del(key)
DbDel(db, key) ==
    IF key \notin db.map THEN [db |-> db, ok |-> FALSE]
    ELSE [db |-> [list |-> EraseEntry(db.list, key),
                  map |-> db.map \ {key},
                  mem |-> db.mem - ReleasedBytes(FindEntry(db.list, key))],
          ok |-> TRUE]

\* the loop of the DEL branch: count += database_.del(command[i]) ? 1 : 0
RECURSIVE DelAll(_, _, _)
DelAll(db, keys, count) ==
    IF keys = <<>> THEN [db |-> db, count |-> count]
    ELSE LET r == DbDel(db, Head(keys))
         IN  DelAll(r.db, Tail(keys), count + (IF r.ok THEN 1 ELSE 0))

\* the count that the DEL branch replies
DelCount(db, keys) == DelAll(db, keys, 0).count

\* the info text of the INFO branch
InfoText(db, max) ==
    <<"#", " ", "M", "e", "m", "o", "r", "y", "\r", "\n">>
      \o <<"u", "s", "e", "d", "_", "m", "e", "m", "o", "r", "y", ":">> \o to_string(db.mem) \o CRLF
      \o <<"m", "a", "x", "m", "e", "m", "o", "r", "y", ":">> \o to_string(max) \o CRLF
      \o <<"m", "a", "x", "m", "e", "m", "o", "r", "y", "_", "p", "o", "l", "i", "c", "y", ":", "a", "l", "l", "k", "e", "y", "s", "-", "l", "r", "u", "\r", "\n">>
      \o <<"#", " ", "S", "t", "a", "t", "s", "\r", "\n">>
      \o <<"k", "e", "y", "s", "p", "a", "c", "e", "_", "h", "i", "t", "s", ":">> \o to_string(Cardinality(db.map)) \o CRLF

\* the CONFIG branch
ConfigReply(max, command) ==
    IF Len(command) < 2 THEN ErrorReply(MsgConfigArgs)
    ELSE IF ToUpper(command[2]) = <<"G", "E", "T">> /\ Len(command) >= 3
              /\ ToLower(command[3]) = <<"m", "a", "x", "m", "e", "m", "o", "r", "y">>
    THEN <<"*", "2", "\r", "\n", "$", "9", "\r", "\n", "m", "a", "x", "m", "e", "m", "o", "r", "y", "\r", "\n", "$">>
            \o to_string(Len(to_string(max))) \o CRLF \o to_string(max) \o CRLF
    ELSE IF ToUpper(command[2]) = <<"G", "E", "T">> /\ Len(command) >= 3
              /\ ToLower(command[3]) = <<"m", "a", "x", "m", "e", "m", "o", "r", "y", "-", "p", "o", "l", "i", "c", "y">>
    THEN <<"*", "2", "\r", "\n", "$", "1", "6", "\r", "\n", "m", "a", "x", "m", "e", "m", "o", "r", "y", "-", "p", "o", "l", "i", "c", "y", "\r", "\n", "$", "1", "1", "\r", "\n", "a", "l", "l", "k", "e", "y", "s", "-", "l", "r", "u", "\r", "\n">>
    ELSE SimpleReply(MsgConfigHelp)

\* what handle_command does with the command: the database after it, the
\* response, and (ghost) whether a set stored its entry
HandleCommand(db, max, command) ==
    LET cmd == ToUpper(command[1])
        reply(r) == [db |-> db, response |-> r, stored |-> FALSE]
    IN  IF command = <<>> THEN reply(ErrorReply(MsgInvalid))
        ELSE IF cmd = <<"S", "E", "T">>
        THEN IF Len(command) < 3 THEN reply(ErrorReply(MsgSetArgs))
             ELSE LET r == SetResult(db.list, db.map, db.mem, max,
                                     command[2], command[3])
                  IN  [db |-> [list |-> r.list, map |-> r.map, mem |-> r.mem],
                       response |-> SetReply(r.stored),
                       stored |-> r.stored]
        ELSE IF cmd = <<"G", "E", "T">>
        THEN IF Len(command) < 2 THEN reply(ErrorReply(MsgGetArgs))
             ELSE IF command[2] \notin db.map THEN reply(NullReply)
             ELSE [db |-> [db EXCEPT !.list = MoveToFront(db.list, command[2])],
                   response |-> BulkReply(FindEntry(db.list, command[2]).value),
                   stored |-> FALSE]
        ELSE IF cmd = <<"D", "E", "L">>
        THEN IF Len(command) < 2 THEN reply(ErrorReply(MsgDelArgs))
             ELSE [db |-> DelAll(db, Tail(command), 0).db,
                   response |-> IntegerReply(DelCount(db, Tail(command))),
                   stored |-> FALSE]
        ELSE IF cmd = <<"I", "N", "F", "O">>
        THEN reply(BulkReply(InfoText(db, max)))
        ELSE IF cmd = <<"C", "O", "N", "F", "I", "G">>
        THEN reply(ConfigReply(max, command))
        ELSE reply(ErrorReply(MsgUnknown))

(***************************************************************************)
(* The worker of lib/server.h: one readable event of a client socket       *)
(***************************************************************************)
\* the sequences over S of length lo to hi
SeqsOf(S, lo, hi) == UNION {[1..n -> S] : n \in lo..hi}

\* the request of the sender (ghost): how its bytes were made
NewRequest == [kind |-> "new", args |-> <<>>]

\* the keys and values that the clients of the worker use
SrvKeys == {<<"a">>, <<"b">>}

SrvValues == {<<"s">>, BigValue}

\* the arguments that callers pass to Client::set, get and del
ClientKeys == SrvKeys \cup {<<"a", SP, "a">>}

ClientValues == SrvValues \cup {<<>>, <<"s", SP, "s">>}

ClientLines ==
    {SetLine(k, v) : k \in ClientKeys, v \in ClientValues}
       \cup {GetLine(k) : k \in ClientKeys}
       \cup {DelLine(k) : k \in ClientKeys}

\* payloads with bytes of the framing in them, an empty one, a long one
OddArgs == {<<>>, CRLF, <<"$", "1", CR, LF>>, Str("z", LongArgLen)}

\* DEL requests with up to MaxDelKeys keys, in either letter case
DelRequests ==
    {<<verb>> \o ks : verb \in {<<"D", "E", "L">>, <<"d", "e", "l">>},
                      ks \in SeqsOf(SrvKeys, 0, MaxDelKeys)}

OtherRequests ==
    { <<<<"I", "N", "F", "O">>>>, <<<<"C", "O", "N", "F", "I", "G">>>>, <<<<"P", "I", "N", "G">>>>,
      <<<<"C", "O", "N", "F", "I", "G">>, <<"G", "E", "T">>, <<"m", "a", "x", "m", "e", "m", "o", "r", "y">>>>,
      <<<<"c", "o", "n", "f", "i", "g">>, <<"g", "e", "t">>, <<"M", "a", "x", "M", "e", "m", "o", "r", "y", "-", "P", "o", "l", "i", "c", "y">>>>,
      <<<<"C", "O", "N", "F", "I", "G">>, <<"S", "E", "T">>, <<"m", "a", "x", "m", "e", "m", "o", "r", "y">>>>,
      <<<<"S", "E", "T">>, <<"a">>>>, <<<<"G", "E", "T">>>> }

\* the arrays of bulk strings that arrive as one well-formed request each
ArrayRequests ==
    DelRequests \cup OtherRequests \cup SeqsOf(OddArgs, 0, MaxOddArgs)

\* inputs that do not start with '*'
NonArrayInputs ==
    { <<"G", "E", "T", " ", "a", "\r", "\n">>, <<"$", "3", "\r", "\n", "G", "E", "T", "\r", "\n">>, <<"+", "O", "K", "\r", "\n">>, CRLF, <<"a">> }

\* malformed inputs: a length that is no number or is missing, a missing
\* CRLF, a frame cut before its declared length or element count
MalformedInputs ==
    { <<"*", "x", "\r", "\n", "$", "3", "\r", "\n", "G", "E", "T", "\r", "\n">>,
      <<"*", "\r", "\n">>,
      <<"*", "1", "\r", "\n", "$", "x", "\r", "\n", "G", "E", "T", "\r", "\n">>,
      <<"*", "2", "\r", "\n", "$", "3", "\r", "\n", "G", "E", "T", "\r", "\n", "$", "\r", "\n", "a", "\r", "\n">>,
      <<"*", "1">>,
      <<"*", "1", "\r", "\n", "$", "3">>,
      <<"*", "2", "\r", "\n", "$", "3", "\r", "\n", "G", "E", "T", "\r", "\n", "$", "1", "\r", "\n", "a">>,
      <<"*", "2", "\r", "\n", "$", "3", "\r", "\n", "G", "E", "T", "\r", "\n">>,
      <<"*", "3", "\r", "\n", "$", "3", "\r", "\n", "S", "E", "T", "\r", "\n", "$", "1", "\r", "\n", "a", "\r", "\n", "$", "5", "\r", "\n", "s">>,
      <<"*", "1", "\r", "\n", "$", "4", "\r", "\n", "I", "N">> }

\* the requests as they are sent: how the sender made them (ghost), the
\* arguments it meant, and the bytes on the wire
Sent(kind, args, bytes) == [kind |-> kind, args |-> args, bytes |-> bytes]

ClientSends ==
    {Sent("client", Tokens(line, 0), EncodeCommand(line)) :
        line \in ClientLines}

ArraySends == {Sent("array", args, ArrayOf(args)) : args \in ArrayRequests}

NonArraySends == {Sent("nonarray", <<>>, bytes) : bytes \in NonArrayInputs}

MalformedSends ==
    {Sent("malformed", <<>>, bytes) : bytes \in MalformedInputs}

\* the client branch of Server::init for the bytes that recv returned:
\* parse_resp, handle_command, send
ServeBytes(req) ==
    /\ running
    /\ req.bytes # <<>>
    /\ buffer_' = req.bytes
    /\ request' = [kind |-> req.kind, args |-> req.args]
    /\ \E p \in {ParseResp(req.bytes)} :
          /\ IF p.crash
             THEN /\ running' = FALSE
                  /\ result_' = <<>>
                  /\ response' = <<>>
                  /\ set_stored' = FALSE
                  /\ UNCHANGED <<cache_list, cache_map, current_memory_usage>>
             ELSE \E h \in {HandleCommand(Db, max_memory_bytes, p.result)} :
                  /\ running' = TRUE
                  /\ result_' = p.result
                  /\ response' = h.response
                  /\ set_stored' = h.stored
                  /\ cache_list' = h.db.list
                  /\ cache_map' = h.db.map
                  /\ current_memory_usage' = h.db.mem
          /\ lastOp' = [name |-> "serve", key |-> <<>>, value |-> NoValue,
                        ret |-> ~p.crash, evicted |-> <<>>]
    /\ UNCHANGED <<max_memory_bytes, touchOrder, trip, lastSet>>

\* the same for bytes that leave room in the buffer for the final '\0'
Serve(req) ==
    /\ Len(req.bytes) < BufferSize
    /\ ServeBytes(req)

\* Server(ip, port, buffer_size, max_events, max_mem_bytes) and init()
InitServer ==
    /\ \E max_mem \in MemLimits : NewLRU(max_mem)
    /\ NoStore
    /\ NoTier
    /\ NoExt
    /\ buffer_ = <<>>
    /\ result_ = <<>>
    /\ response = <<>>
    /\ running = TRUE
    /\ request = NewRequest
    /\ set_stored = FALSE
    /\ dumy_keys = {}
    /\ lastOp = NoOp
    /\ lastSet = [k \in Keys |-> NoValue]

\* a request that a Client encoded
ServeClientStep ==
    /\ \E req \in ClientSends : Serve(req)
    /\ UNCHANGED <<logVars, tierVars, dumy_keys, extVars>>

\* a request that some other sender framed as an array of bulk strings
ServeArrayStep ==
    /\ \E req \in ArraySends : Serve(req)
    /\ UNCHANGED <<logVars, tierVars, dumy_keys, extVars>>

ServeNonArrayStep ==
    /\ \E req \in NonArraySends : Serve(req)
    /\ UNCHANGED <<logVars, tierVars, dumy_keys, extVars>>

ServeMalformedStep ==
    /\ \E req \in MalformedSends : Serve(req)
    /\ UNCHANGED <<logVars, tierVars, dumy_keys, extVars>>

NextServer ==
    ServeClientStep \/ ServeArrayStep \/ ServeNonArrayStep
       \/ ServeMalformedStep

SpecServer == InitServer /\ [][NextServer]_vars

(***************************************************************************)
(* Properties of the RESP codec and of the dispatcher                      *)
(***************************************************************************)
StartsWith(s, prefix) ==
    /\ Len(s) >= Len(prefix)
    /\ SubSeq(s, 1, Len(prefix)) = prefix

\* C16: an input *N CRLF followed by N complete bulk strings $L CRLF
\* <L bytes> CRLF parses to exactly the N payloads, in order, whatever bytes
\* they hold; an input that does not start with '*' parses to the empty
\* command, which is answered with the "Invalid command" error.
C16_ParserYieldsPayloads ==
    /\ request.kind \in {"array", "client"}
          => (running /\ buffer_ = ArrayOf(request.args)
                /\ result_ = request.args)
    /\ request.kind = "nonarray"
          => (running /\ buffer_[1] # "*" /\ result_ = <<>>
                /\ response = ErrorReply(MsgInvalid))

\* a request of two payloads that hold CRLF and '$' was parsed
C16_Witness ==
    /\ request.kind = "array"
    /\ Len(result_) = 2
    /\ result_[1] = <<"$", "1", CR, LF>>
    /\ result_[2] = CRLF

\* C17: for a request of the client, encoding the parsed result again gives
\* the bytes of the first encoding: encode . parse . encode = encode.
C17_RoundTrip ==
    request.kind = "client"
        => (running /\ EncodeCommand(Join(result_)) = buffer_)

\* a request of four arguments, made by Client::set from a value with a
\* space in it, went through
C17_Witness ==
    /\ request.kind = "client"
    /\ Len(result_) = 4
    /\ buffer_ = EncodeCommand(SetLine(<<"a">>, <<"s", SP, "s">>))

\* C18: a malformed input gets a reply that starts with -ERR, and the
\* worker keeps running with the connection open.
C18_MalformedGetsError ==
    request.kind = "malformed"
        => (running /\ StartsWith(response, <<"-", "E", "R", "R">>))

\* C19: a SET request with a key and a value is answered +OK CRLF, whether
\* the store kept the entry or rejected it.
C19_SetAlwaysOK ==
    (lastOp.name = "serve" /\ running /\ Len(result_) >= 3
       /\ ToUpper(result_[1]) = <<"S", "E", "T">>)
        => response = <<"+", "O", "K", "\r", "\n">>

\* a SET that the store rejected as too large was answered
C19_Witness ==
    /\ request.kind = "client"
    /\ Len(result_) >= 3
    /\ ToUpper(result_[1]) = <<"S", "E", "T">>
    /\ ~set_stored
    /\ result_[3] = BigValue
    /\ response = <<"+", "O", "K", "\r", "\n">>

\* the command has a verb that is none of SET, GET, DEL, INFO, CONFIG in any
\* letter case, or lacks a required argument, or is a CONFIG request other
\* than CONFIG GET maxmemory and CONFIG GET maxmemory-policy
IsCommandError(cmd) ==
    /\ cmd # <<>>
    /\ LET verb == ToUpper(cmd[1])
       IN  \/ verb \notin {<<"S", "E", "T">>, <<"G", "E", "T">>,
                           <<"D", "E", "L">>, <<"I", "N", "F", "O">>,
                           <<"C", "O", "N", "F", "I", "G">>}
           \/ verb = <<"S", "E", "T">> /\ Len(cmd) < 3
           \/ verb \in {<<"G", "E", "T">>, <<"D", "E", "L">>} /\ Len(cmd) < 2
           \/ /\ verb = <<"C", "O", "N", "F", "I", "G">>
              /\ ~(/\ Len(cmd) >= 3
                    /\ ToUpper(cmd[2]) = <<"G", "E", "T">>
                    /\ ToLower(cmd[3])
                          \in {<<"m", "a", "x", "m", "e", "m", "o", "r", "y">>,
                               <<"m", "a", "x", "m", "e", "m", "o", "r", "y",
                                 "-", "p", "o", "l", "i", "c", "y">>})

\* C36: a request with an unknown verb, a request that lacks a required
\* argument and a CONFIG request that is not CONFIG GET maxmemory or CONFIG
\* GET maxmemory-policy are answered with a reply that starts with -ERR and
\* leave the store unchanged, the verb taken in any letter case.
C36_CommandErrors ==
    [][(lastOp'.name = "serve" /\ running' /\ IsCommandError(result_'))
          => /\ StartsWith(response', <<"-", "E", "R", "R">>)
             /\ Db' = Db]_vars

(***************************************************************************)
(* The stand-alone worker of bin/dumy.c, for requests whose frame is       *)
(* complete                                                                *)
(***************************************************************************)
\* atoi: 0 where there is no number
AtoI(s) == IF StoI(s).ok THEN StoI(s).val ELSE 0

\* the scan for "\r\n" from pos: the offset of the first CRLF, or of the end
RECURSIVE DumyNewlinePos(_, _, _)
DumyNewlinePos(in, pos, newline_pos) ==
    IF pos + newline_pos >= Len(in) THEN newline_pos
    ELSE IF in[pos + newline_pos + 1] = CR /\ pos + newline_pos + 1 < Len(in)
              /\ in[pos + newline_pos + 2] = LF
    THEN newline_pos
    ELSE DumyNewlinePos(in, pos, newline_pos + 1)

\* the for loop of parse_resp of dumy.c
RECURSIVE DumyParseBulk(_, _, _, _, _)
DumyParseBulk(in, pos, i, array_len, result) ==
    IF i >= array_len \/ pos >= Len(in) THEN result
    ELSE IF in[pos + 1] # "$" THEN result
    ELSE LET newline_pos == DumyNewlinePos(in, pos + 1, 0)
             str_len == AtoI(SubSeq(in, pos + 2, pos + 1 + newline_pos))
             start == pos + 1 + newline_pos + 2
         IN  DumyParseBulk(in, start + str_len + 2, i + 1, array_len,
                           Append(result,
                                  SubSeq(in, start + 1, start + str_len)))

\* parse_resp of dumy.c
DumyParseResp(in) ==
    IF in = <<>> THEN <<>>
    ELSE IF in[1] # "*" THEN <<>>
    ELSE LET newline_pos == DumyNewlinePos(in, 1, 0)
             array_len == AtoI(SubSeq(in, 2, 1 + newline_pos))
         IN  DumyParseBulk(in, 1 + newline_pos + 2, 0, array_len, <<>>)

\* handle_command of dumy.c: the keys of the database after it and the
\* response; count is the number of elements of the command
DumyHandleCommand(keys, cmd) ==
    LET count == Len(cmd)
        verb == ToUpper(cmd[1])
        reply(r) == [keys |-> keys, response |-> r]
    IN  IF count = 0 THEN reply(ErrorReply(MsgInvalid))
        ELSE IF verb = <<"S", "E", "T">>
        THEN IF count < 3 THEN reply(ErrorReply(MsgSetArgs))
             ELSE [keys |-> keys \cup {cmd[2]},
                   response |-> SimpleReply(MsgOK)]
        ELSE IF verb = <<"G", "E", "T">>
        THEN IF count < 2 THEN reply(ErrorReply(MsgGetArgs))
             ELSE reply(NullReply)
        ELSE IF verb = <<"D", "E", "L">>
        THEN IF count < 2 THEN reply(ErrorReply(MsgDelArgs))
             ELSE reply(IntegerReply(count - 1))
        ELSE IF verb = <<"I", "N", "F", "O">>
        THEN reply(BulkReply(
                 <<"#", " ", "M", "e", "m", "o", "r", "y", "\r", "\n", "u", "s", "e", "d", "_", "m", "e", "m", "o", "r", "y", ":", "1", "0", "2", "4", "\r", "\n", "m", "a", "x", "m", "e", "m", "o", "r", "y", ":", "1", "0", "4", "8", "5", "7", "6", "0", "\r", "\n">>))
        ELSE reply(ErrorReply(MsgUnknown))

\* the requests that the clients of this worker send
DumyRequests ==
    DelRequests \cup {<<<<"S", "E", "T">>, k, <<"s">>>> : k \in SrvKeys}
       \cup {<<<<"G", "E", "T">>, k>> : k \in SrvKeys} \cup {<<<<"I", "N", "F", "O">>>>}

DumySends == {Sent("array", args, ArrayOf(args)) : args \in DumyRequests}

\* one readable event of a client socket: read, parse_resp, handle_command,
\* send
DumyServe(req) ==
    LET cmd == DumyParseResp(req.bytes)
        h == DumyHandleCommand(dumy_keys, cmd)
    IN  /\ Len(req.bytes) < DumyBufferSize
        /\ buffer_' = req.bytes
        /\ request' = [kind |-> req.kind, args |-> req.args]
        /\ result_' = cmd
        /\ response' = h.response
        /\ dumy_keys' = h.keys
        /\ lastOp' = [name |-> "dumy", key |-> <<>>, value |-> NoValue,
                      ret |-> TRUE, evicted |-> <<>>]
        /\ UNCHANGED <<running, set_stored, lruVars, lastSet>>

DumyServeStep ==
    /\ \E req \in DumySends : DumyServe(req)
    /\ UNCHANGED <<logVars, tierVars, extVars>>

\* DEL requests, and the SET requests that make keys present
DelSends ==
    {Sent("array", args, ArrayOf(args)) :
        args \in DelRequests
                   \cup {<<<<"S", "E", "T">>, k, <<"s">>>> : k \in SrvKeys}}

\* a readable event of the worker of lib/server.h with such a request
ServeDelStep ==
    /\ \E req \in DelSends : Serve(req)
    /\ UNCHANGED <<logVars, tierVars, dumy_keys, extVars>>

\* both programs that answer DEL, each with its own clients
InitDispatchers == InitServer

NextDispatchers == ServeDelStep \/ DumyServeStep

SpecDispatchers == InitDispatchers /\ [][NextDispatchers]_vars

\* the listed keys that were present and that this step removed
DeletedBy(keys, before, after) ==
    Cardinality({k \in Range(keys) : k \in before /\ k \notin after})

\* the step answered a DEL request that names at least one key
IsDelReply ==
    /\ Len(result_') >= 2
    /\ ToUpper(result_'[1]) = <<"D", "E", "L">>

\* C20: a DEL request with keys k1..kn is answered :c CRLF, c being the
\* number of listed keys that were present and that this command removed:
\* an absent key counts 0 and a key listed twice counts once.
C20_DelCountsDeletions ==
    [][/\ (lastOp'.name = "serve" /\ IsDelReply)
            => response' = IntegerReply(
                             DeletedBy(Tail(result_'), cache_map, cache_map'))
       /\ (lastOp'.name = "dumy" /\ IsDelReply)
            => response' = IntegerReply(
                             DeletedBy(Tail(result_'), dumy_keys, dumy_keys'))
      ]_vars

(***************************************************************************)
(* One client connection of the worker of lib/server.h: the socket is      *)
(* registered with EPOLLIN | EPOLLET, and each readiness event is answered *)
(* with one recv, one parse_resp, one handle_command and one send          *)
(***************************************************************************)
\* the complete requests that the client of the connection sends
ConnSends ==
    {Sent("array", args, ArrayOf(args)) :
        args \in {<<<<"S", "E", "T">>, <<"a">>, <<"s">>>>,
                  <<<<"G", "E", "T">>, <<"a">>>>,
                  <<<<"D", "E", "L">>, <<"a">>>>,
                  <<<<"S", "E", "T">>, <<"b">>, <<"s">>>>}}

Min(a, b) == IF a < b THEN a ELSE b

\* Server(ip, port, buffer_size, max_events, max_mem_bytes), init(), and a
\* client that connected
InitConn ==
    /\ NewLRU(LargestLimit)
    /\ NoStore
    /\ NoTier
    /\ buffer_ = <<>>
    /\ result_ = <<>>
    /\ response = <<>>
    /\ running = TRUE
    /\ request = NewRequest
    /\ set_stored = FALSE
    /\ dumy_keys = {}
    /\ recv_queue = <<>>
    /\ epoll_ready = FALSE
    /\ buffer_size_ = ConnBufferSize
    /\ NoReactor
    /\ conn_sent = <<>>
    /\ conn_done = <<>>
    /\ conn_replies = <<>>
    /\ conn_rest = <<>>
    /\ NoRouter
    /\ lastOp = NoOp
    /\ lastSet = [k \in Keys |-> NoValue]
    /\ NoCompact
    /\ NoDict

\* the client writes one complete request; its bytes join those that wait,
\* and their arrival raises the edge-triggered readiness event
ConnSend(req) ==
    /\ Len(conn_sent) < MaxPipeline
    /\ recv_queue' = recv_queue \o req.bytes
    /\ epoll_ready' = TRUE
    /\ conn_sent' = Append(conn_sent, req.args)
    /\ UNCHANGED <<buffer_size_, conn_done, conn_replies, conn_rest,
                   reactorVars>>
    /\ UNCHANGED <<lruVars, serverVars, lastOp, lastSet>>

\* epoll_wait reports the event and the worker handles it: one recv of at
\* most buffer_size_ bytes, then parse_resp, handle_command and send.  The
\* event is consumed: EPOLLET reports no other one until new bytes arrive.
\* With overrun, the write of '\0' one past the buffer of a full read took
\* the process down.
ConnRead(overrun) ==
    LET bytes_read == Min(Len(recv_queue), buffer_size_)
        input == SubSeq(recv_queue, 1, bytes_read)
    IN  /\ epoll_ready
        /\ running
        /\ bytes_read > 0
        /\ recv_queue' = SubSeq(recv_queue, bytes_read + 1, Len(recv_queue))
        /\ epoll_ready' = FALSE
        /\ IF overrun
           THEN /\ bytes_read = buffer_size_
                /\ buffer_' = input
                /\ running' = FALSE
                /\ result_' = <<>>
                /\ response' = <<>>
                /\ set_stored' = FALSE
                /\ request' = [kind |-> "conn", args |-> <<>>]
                /\ lastOp' = [name |-> "serve", key |-> <<>>,
                              value |-> NoValue, ret |-> FALSE,
                              evicted |-> <<>>]
                /\ UNCHANGED <<lruVars, lastSet>>
           ELSE ServeBytes(Sent("conn", <<>>, input))
        /\ conn_done' = IF running' THEN Append(conn_done, result_')
                        ELSE conn_done
        /\ conn_replies' = IF running' THEN Append(conn_replies, response')
                           ELSE conn_replies
        /\ UNCHANGED <<buffer_size_, conn_sent, conn_rest, dumy_keys,
                       reactorVars>>

ConnSendStep ==
    /\ \E req \in ConnSends : ConnSend(req)
    /\ UNCHANGED <<logVars, tierVars, routerVars, compactVars, dictVars>>

ConnReadStep ==
    /\ \E overrun \in BOOLEAN : ConnRead(overrun)
    /\ UNCHANGED <<logVars, tierVars, routerVars, compactVars, dictVars>>

NextConn == ConnSendStep \/ ConnReadStep

SpecConn == InitConn /\ [][NextConn]_vars

\* what a step of ConnRead does to the readiness event: it consumes it
HandleEvent == epoll_ready /\ running /\ epoll_ready' = FALSE

\* the worker is scheduled: epoll_wait returns a readiness event that waits,
\* and the worker handles it
SpecConnFair == SpecConn /\ WF_epoll_ready(HandleEvent)

IsPrefix(s, t) == Len(s) <= Len(t) /\ SubSeq(t, 1, Len(s)) = s

\* C21: on one connection the worker executes the complete requests that
\* the client sent, each once and in the order sent, and writes one reply
\* per request: what it executed is a prefix of what was sent, with one
\* reply each, and once it has read every byte it has executed them all.
C21_PerConnectionFIFO ==
    running =>
        /\ IsPrefix(conn_done, conn_sent)
        /\ Len(conn_replies) = Len(conn_done)
        /\ recv_queue = <<>> /\ ~epoll_ready => conn_done = conn_sent

\* C22: every byte the client sent is eventually read and every request
\* eventually has its reply, with no further bytes arriving.
C22_ReactorDoesNotStall ==
    /\ (recv_queue # <<>>) ~> (recv_queue = <<>>)
    /\ (Len(conn_replies) < Len(conn_sent))
          ~> (Len(conn_replies) = Len(conn_sent))

\* the client writes the first n bytes of a request, once the worker has
\* read all that was written before
SplitSend(req, n) ==
    /\ Len(conn_sent) < MaxSplit
    /\ recv_queue = <<>> /\ ~epoll_ready /\ conn_rest = <<>>
    /\ recv_queue' = SubSeq(req.bytes, 1, n)
    /\ conn_rest' = SubSeq(req.bytes, n + 1, Len(req.bytes))
    /\ epoll_ready' = TRUE
    /\ conn_sent' = Append(conn_sent, req.args)
    /\ UNCHANGED <<buffer_size_, conn_done, conn_replies, reactorVars>>
    /\ UNCHANGED <<lruVars, serverVars, lastOp, lastSet>>

\* the client writes the rest of the request
SplitRest ==
    /\ conn_rest # <<>>
    /\ recv_queue' = recv_queue \o conn_rest
    /\ conn_rest' = <<>>
    /\ epoll_ready' = TRUE
    /\ UNCHANGED <<buffer_size_, conn_sent, conn_done, conn_replies,
                   reactorVars>>
    /\ UNCHANGED <<lruVars, serverVars, lastOp, lastSet>>

SplitSendStep ==
    /\ \E req \in ConnSends : \E n \in 1..(Len(req.bytes) - 1) :
          SplitSend(req, n)
    /\ UNCHANGED <<logVars, tierVars, routerVars, compactVars, dictVars>>

SplitRestStep ==
    /\ SplitRest
    /\ UNCHANGED <<logVars, tierVars, routerVars, compactVars, dictVars>>

\* a connection whose client writes each request in two pieces
NextSplit == SplitSendStep \/ SplitRestStep \/ ConnReadStep

SpecSplit == InitConn /\ [][NextSplit]_vars

\* the requests of which the client has written every byte
SentWhole == IF conn_rest = <<>> THEN conn_sent
             ELSE SubSeq(conn_sent, 1, Len(conn_sent) - 1)

(***************************************************************************)
(* The event loop of Server::init with several clients                     *)
(***************************************************************************)
Fds == 1..MaxConns

\* the sockets that accept has not returned yet
FreeFds == {fd \in Fds : peer[fd] = "none"}

\* Server(...), init() up to the loop: no client yet
InitReactor ==
    /\ NewLRU(LargestLimit)
    /\ NoStore
    /\ NoTier
    /\ buffer_ = <<>>
    /\ result_ = <<>>
    /\ response = <<>>
    /\ running = TRUE
    /\ request = NewRequest
    /\ set_stored = FALSE
    /\ dumy_keys = {}
    /\ recv_queue = <<>>
    /\ epoll_ready = FALSE
    /\ buffer_size_ = ConnBufferSize
    /\ conn_sent = <<>>
    /\ conn_done = <<>>
    /\ conn_replies = <<>>
    /\ conn_rest = <<>>
    /\ reg_fds = {}
    /\ fd_closes = [fd \in Fds |-> 0]
    /\ peer = [fd \in Fds |-> "none"]
    /\ last_ev = [kind |-> "none", fd |-> 0]
    /\ NoRouter
    /\ NoCompact
    /\ NoDict
    /\ lastOp = NoOp
    /\ lastSet = [k \in Keys |-> NoValue]

ReactorRest ==
    UNCHANGED <<recv_queue, epoll_ready, buffer_size_, conn_sent, conn_done,
                conn_replies, conn_rest, dumy_keys, logVars, tierVars,
                routerVars, compactVars, dictVars>>

\* variant: the handling of one socket takes every socket out of epoll
AfterClose_All(registered, fd) == {}

\* epoll_ctl(epoll_fd, EPOLL_CTL_DEL, sock_fd, nullptr)
AfterClose(registered, fd) == registered \ {fd}

\* the branch sock_fd == server_fd: accept fails, or the new socket cannot
\* be added to epoll and is closed, or it is added
Accept(outcome) ==
    /\ running
    /\ IF outcome = "accept_failed"
       THEN /\ last_ev' = [kind |-> outcome, fd |-> 0]
            /\ UNCHANGED <<reg_fds, fd_closes, peer>>
       ELSE \E fd \in FreeFds :
            /\ \A other \in FreeFds : fd <= other
            /\ last_ev' = [kind |-> outcome, fd |-> fd]
            /\ IF outcome = "add_failed"
               THEN /\ peer' = [peer EXCEPT ![fd] = "closed"]
                    /\ fd_closes' = [fd_closes EXCEPT ![fd] = @ + 1]
                    /\ UNCHANGED reg_fds
               ELSE /\ peer' = [peer EXCEPT ![fd] = "open"]
                    /\ reg_fds' = reg_fds \cup {fd}
                    /\ UNCHANGED fd_closes
    /\ UNCHANGED <<lruVars, buffer_, result_, response, running, request,
                   set_stored, lastOp, lastSet>>

\* the client of the socket goes away, or its connection breaks
PeerEnds(fd, how) ==
    /\ peer[fd] = "open"
    /\ peer' = [peer EXCEPT ![fd] = how]
    /\ last_ev' = [kind |-> "peer", fd |-> fd]
    /\ UNCHANGED <<reg_fds, fd_closes>>
    /\ UNCHANGED <<lruVars, buffer_, result_, response, running, request,
                   set_stored, lastOp, lastSet>>

\* the client branch with bytes_read > 0: one request of the client
ReactorServe(fd, req) ==
    /\ fd \in reg_fds
    /\ peer[fd] = "open"
    /\ ServeBytes(req)
    /\ last_ev' = [kind |-> "serve", fd |-> fd]
    /\ UNCHANGED <<reg_fds, fd_closes, peer>>

\* the client branch with bytes_read <= 0: end of file or an error
ReactorClose(fd) ==
    /\ running
    /\ fd \in reg_fds
    /\ peer[fd] \in {"eof", "error"}
    /\ reg_fds' = AfterClose(reg_fds, fd)
    /\ fd_closes' = [fd_closes EXCEPT ![fd] = @ + 1]
    /\ peer' = [peer EXCEPT ![fd] = "closed"]
    /\ last_ev' = [kind |-> "close", fd |-> fd]
    /\ UNCHANGED <<lruVars, buffer_, result_, response, running, request,
                   set_stored, lastOp, lastSet>>

AcceptStep ==
    /\ \E outcome \in {"accept_failed", "add_failed", "ok"} : Accept(outcome)
    /\ ReactorRest

PeerEndsStep ==
    /\ \E fd \in Fds, how \in {"eof", "error"} : PeerEnds(fd, how)
    /\ ReactorRest

ReactorServeStep ==
    /\ \E fd \in Fds, req \in ConnSends : ReactorServe(fd, req)
    /\ ReactorRest

ReactorCloseStep ==
    /\ \E fd \in Fds : ReactorClose(fd)
    /\ ReactorRest

NextReactor ==
    AcceptStep \/ PeerEndsStep \/ ReactorServeStep \/ ReactorCloseStep

SpecReactor == InitReactor /\ [][NextReactor]_vars

\* the event handled in the step is a failure of one connection
FailureHandled ==
    /\ last_ev' # last_ev
    /\ last_ev'.kind \in {"accept_failed", "add_failed", "close"}

\* C35: a failure on one connection (accept failure, read error, end of
\* file) affects only that connection: its socket is taken out of epoll
\* and closed exactly once, the store is unchanged, every other connection
\* stays registered and as it was, and the loop keeps running.
C35_FailureIsLocal ==
    /\ [](\A fd \in Fds : /\ fd_closes[fd] <= 1
                           /\ fd_closes[fd] = 1 => fd \notin reg_fds)
    /\ [][FailureHandled
            => /\ Db' = Db
               /\ running'
               /\ reg_fds' = reg_fds \ {last_ev'.fd}
               /\ \A fd \in Fds \ {last_ev'.fd} :
                     fd_closes'[fd] = fd_closes[fd]
               /\ last_ev'.kind # "accept_failed"
                     => fd_closes'[last_ev'.fd] = 1
               /\ \A fd \in reg_fds' : peer'[fd] = peer[fd]]_vars

\* a request of one client was served after the socket of another client
\* was closed on its end of file or error
C35_Witness ==
    /\ last_ev.kind = "serve"
    /\ lastOp.ret
    /\ \E fd \in Fds : fd_closes[fd] = 1 /\ peer[fd] = "closed"
    /\ last_ev.fd \in reg_fds

\* C34: a request that arrives in several reads is accumulated: the worker
\* dispatches it once, when its last byte has arrived, and sends no reply
\* and changes nothing for the incomplete prefix: what it dispatched is a
\* prefix of the requests that arrived whole, with one reply each, and once
\* every byte was written and read it has dispatched them all.
C34_SplitRequestAccumulated ==
    /\ IsPrefix(conn_done, SentWhole)
    /\ Len(conn_replies) = Len(conn_done)
    /\ (recv_queue = <<>> /\ ~epoll_ready /\ conn_rest = <<>>)
          => conn_done = conn_sent

(***************************************************************************)
(* The hash ring of LoadBalancer (lib/load_balancer.h)                     *)
(***************************************************************************)
\* SERVER_IP of blink_server_with_lb.cpp
ServerIp == <<"1", "2", "7", ".", "0", ".", "0", ".", "1">>

\* server_add.port = 5000 + i
FirstPort == 5000

\* the worker lists main builds for num_servers = n
ServerList(n) == [i \in 1..n |-> FirstPort + (i - 1)]

\* server_add.ip + std::to_string(server_add.port)
ServerName(port) == ServerIp \o to_string(port)

\* the keys that requests to the router name
RouteKeys == {<<"a">>, <<"b">>}

\* the strings that are hashed
HashInputs == RouteKeys \cup {ServerName(FirstPort + i) : i \in 0..(MaxWorkers - 1)}

\* the values std::hash gives: lo is the value of bits 0..30, bit31 that of
\* bit 31 (the bits above it do not reach an int)
RawHashes == [lo : 0..MaxHash, bit31 : {0, 1}]

\* variant: the hash is cast to int without the mask
hashKey_NoMask(key) ==
    IF hash_fn[key].bit31 = 1 THEN hash_fn[key].lo - IntMax - 1
    ELSE hash_fn[key].lo

\* hashKey: static_cast<int>(hash_fn(key) & 0x7FFFFFFF)
hashKey_lb(key) == hash_fn[key].lo

\* the constructor's loop over servers_add: the ring and the map after the
\* first n workers; a later worker with the same ring value replaces the
\* earlier one in the map
RECURSIVE RingOf(_, _)
RingOf(servers, n) ==
    IF n = 0 THEN [ring |-> {}, map |-> <<>>]
    ELSE LET before == RingOf(servers, n - 1)
             key == hashKey_lb(ServerName(servers[n]))
         IN  [ring |-> before.ring \cup {key},
              map |-> [k \in before.ring \cup {key} |->
                          IF k = key THEN servers[n] ELSE before.map[k]]]

MinOf(S) == CHOOSE x \in S : \A y \in S : x <= y

\* getServer: lower_bound of the hash in the ring, begin() at the end
getServer(key) ==
    LET hash == hashKey_lb(key)
        from == {r \in hash_ring_ : r >= hash}
        it == IF from = {} THEN MinOf(hash_ring_) ELSE MinOf(from)
    IN  server_map_[it]

\* LoadBalancer(lb_ip, lb_port, servers_add, buffer_size, max_events) for
\* the worker list and the hash function of the run
NewRing(fn, servers) ==
    /\ hash_fn = fn
    /\ servers_add_ = servers
    /\ hash_ring_ = RingOf(servers, Len(servers)).ring
    /\ server_map_ = RingOf(servers, Len(servers)).map

NoTraffic ==
    /\ worker_db = <<>>
    /\ lb_connected = FALSE
    /\ lb_running = TRUE
    /\ lb_request = <<>>
    /\ lb_target = 0
    /\ lb_reply = <<>>
    /\ lb_sockets = {}
    /\ home = [k \in RouteKeys |-> 0]

InitRing ==
    /\ \E fn \in [HashInputs -> RawHashes], n \in 1..MaxWorkers :
          NewRing(fn, ServerList(n))
    /\ NoTraffic
    /\ NewLRU(0)
    /\ NoStore
    /\ NoTier
    /\ NoConn
    /\ buffer_ = <<>>
    /\ result_ = <<>>
    /\ response = <<>>
    /\ running = FALSE
    /\ request = <<>>
    /\ set_stored = FALSE
    /\ dumy_keys = {}
    /\ lastOp = NoOp
    /\ lastSet = [k \in Keys |-> NoValue]
    /\ NoCompact
    /\ NoDict

\* a call of getServer(key)
RingLookup(key) ==
    /\ lb_request' = [via |-> "lookup", args |-> <<key>>, after_drop |-> FALSE]
    /\ lb_target' = getServer(key)
    /\ home' = [home EXCEPT ![key] = getServer(key)]
    /\ UNCHANGED <<hash_fn, servers_add_, hash_ring_, server_map_, worker_db,
                   lb_connected, lb_running, lb_reply, lb_sockets>>

RingLookupStep ==
    /\ \E key \in RouteKeys : RingLookup(key)
    /\ UNCHANGED <<lruVars, logVars, tierVars, serverVars, connVars,
                   compactVars, dictVars, lastOp, lastSet>>

NextRing == RingLookupStep

SpecRing == InitRing /\ [][NextRing]_vars

\* the ring value of a worker, from the hash and the mask
RingValue(port) == hash_fn[ServerName(port)].lo

RingValues == {RingValue(port) : port \in Range(servers_add_)}

\* the ring value that serves the hash h: the smallest one >= h, or the
\* smallest of all
Nearest(h) ==
    IF \E r \in RingValues : r >= h
    THEN MinOf({r \in RingValues : r >= h})
    ELSE MinOf(RingValues)

\* C23: getServer returns a configured worker whose ring value is the
\* smallest one >= hash(key) & 0x7FFFFFFF, or the minimum ring value when
\* none is that large, and a repeated lookup of a key gives the same worker.
C23_RingLookup ==
    /\ [](lb_request # <<>> =>
            /\ lb_target \in Range(servers_add_)
            /\ RingValue(lb_target)
                  = Nearest(hash_fn[lb_request.args[1]].lo))
    /\ [][\A k \in RouteKeys :
             (lb_request'.args = <<k>> /\ home[k] # 0)
                 => lb_target' = home[k]]_vars

\* a lookup wrapped around: every ring value is below the hash of the key,
\* whose raw hash has a bit above the mask, and there are several workers
C23_Witness ==
    /\ lb_request # <<>>
    /\ Cardinality(RingValues) > 1
    /\ \A r \in RingValues : r < hash_fn[lb_request.args[1]].lo
    /\ hash_fn[lb_request.args[1]].bit31 = 1
    /\ home[lb_request.args[1]] = lb_target

(***************************************************************************)
(* The router: LoadBalancer::server_init with parse_key, in front of the   *)
(* workers that blink_server_with_lb.cpp starts, one Server each           *)
(***************************************************************************)
\* the max_mem_bytes the workers are constructed with
WorkerMaxMem == WorkerEntries * (EntryOverhead + 2)

\* the values the clients of the router set
RouteValues == {<<"s">>, <<"t">>}

\* the requests the clients send
RouteSends ==
    {Sent("array", args, ArrayOf(args)) :
        args \in {<<<<"S", "E", "T">>, k, v>> : k \in RouteKeys, v \in RouteValues}
                   \cup {<<<<"G", "E", "T">>, k>> : k \in RouteKeys}
                   \cup {<<<<"D", "E", "L">>, k>> : k \in RouteKeys}
                   \cup {<<<<"I", "N", "F", "O">>>>}}

\* the hash functions of the router runs: the hash of a key is any value,
\* that of the i-th worker name is i modulo the number of values
RouterHashes ==
    {fn \in [HashInputs -> [lo : 0..MaxHash, bit31 : {0}]] :
        \A i \in 0..(MaxWorkers - 1) :
           fn[ServerName(FirstPort + i)].lo = i % (MaxHash + 1)}

\* parse_key and the worker's parse_resp on the bytes of each request
RouteParsed == [req \in RouteSends |-> ParseResp(req.bytes)]

EmptyDb == [list |-> <<>>, map |-> {}, mem |-> 0]

\* main: the workers, each with its own Server and database_, and the
\* LoadBalancer over their addresses
InitRouter ==
    /\ \E fn \in RouterHashes, n \in 1..MaxWorkers : NewRing(fn, ServerList(n))
    /\ worker_db = [port \in Range(servers_add_) |-> EmptyDb]
    /\ lb_connected = FALSE
    /\ lb_running = TRUE
    /\ lb_request = [via |-> "new", args |-> <<>>, after_drop |-> FALSE]
    /\ lb_target = 0
    /\ lb_reply = <<>>
    /\ lb_sockets = {"client"}
    /\ home = [k \in RouteKeys |-> 0]
    /\ NewLRU(0)
    /\ NoStore
    /\ NoTier
    /\ NoConn
    /\ buffer_ = <<>>
    /\ result_ = <<>>
    /\ response = <<>>
    /\ running = TRUE
    /\ request = NewRequest
    /\ set_stored = FALSE
    /\ dumy_keys = {}
    /\ lastOp = NoOp
    /\ lastSet = [k \in Keys |-> NoValue]
    /\ NoCompact
    /\ NoDict

\* the worker on the port serves the bytes of one request: what its
\* database_ is afterwards and what it sends back
WorkerServe(port, req) ==
    HandleCommand(worker_db[port], WorkerMaxMem, RouteParsed[req].result)

\* variant: the workers share one database
AfterServe_Shared(port, db) == [p \in DOMAIN worker_db |-> db]

\* the databases after the worker on the port served a request: each
\* serverThread has its own Server, so only that one changes
AfterServe(port, db) == [worker_db EXCEPT ![port] = db]

\* variant: the client is told that the worker cannot be reached
DroppedReply_Error ==
    ErrorReply(<<"b", "a", "c", "k", "e", "n", "d">>)

\* the else branch of connect: perror and close, nothing for the client
DroppedReply == <<>>

\* the value a delivered command leaves as the latest one set for its key
SetBy(command, h) ==
    IF command[1] = <<"S", "E", "T">> THEN command[3]
    ELSE IF command[1] = <<"D", "E", "L">> THEN NoValue
    ELSE lastSet[command[2]]

\* the request branch of server_init for the bytes of one request with a
\* key in it: parse_key, getServer, connect, and when that succeeded send,
\* recv from the worker, send to the client; close(server_fd) either way
Route(req, connected) ==
    LET key == RouteParsed[req].result[2]
        port == getServer(key)
    IN  /\ lb_running
        /\ Len(req.bytes) < RouterBufferSize
        /\ Len(req.args) >= 2
        /\ lb_request' = [via |-> "router", args |-> req.args,
                          after_drop |-> lb_request.via = "router"
                                            /\ ~lb_connected]
        /\ lb_target' = port
        /\ home' = [home EXCEPT ![key] = port]
        /\ lb_connected' = connected
        /\ lb_sockets' = {"client"}
        /\ IF connected
           THEN \E h \in {WorkerServe(port, req)} :
                  /\ worker_db' = AfterServe(port, h.db)
                  /\ lb_reply' = h.response
                  /\ lastSet' = [lastSet EXCEPT ![key] = SetBy(req.args, h)]
           ELSE /\ lb_reply' = DroppedReply
                /\ UNCHANGED <<worker_db, lastSet>>
        /\ UNCHANGED <<hash_fn, servers_add_, hash_ring_, server_map_,
                       lb_running>>

\* the same for a request of one element: parse_key returns result[1] of a
\* vector that has no such element.  The read took the process down, or it
\* gave some string, and the request went to the worker that serves the
\* hash of that string.
RouteNoKey(req, crashed, port, connected) ==
    /\ lb_running
    /\ Len(req.args) < 2
    /\ lb_request' = [via |-> "router", args |-> req.args,
                      after_drop |-> lb_request.via = "router"
                                        /\ ~lb_connected]
    /\ lb_sockets' = {"client"}
    /\ IF crashed
       THEN /\ lb_running' = FALSE
            /\ lb_target' = 0
            /\ lb_connected' = FALSE
            /\ lb_reply' = <<>>
            /\ UNCHANGED worker_db
       ELSE /\ lb_running' = TRUE
            /\ lb_target' = port
            /\ lb_connected' = connected
            /\ IF connected
               THEN \E h \in {WorkerServe(port, req)} :
                      /\ worker_db' = AfterServe(port, h.db)
                      /\ lb_reply' = h.response
               ELSE /\ lb_reply' = DroppedReply
                    /\ UNCHANGED worker_db
    /\ UNCHANGED <<hash_fn, servers_add_, hash_ring_, server_map_, home,
                   lastSet>>

\* a client that talks to the worker on the port itself sends GET key
DirectGet(port, key) ==
    LET req == Sent("array", <<<<"G", "E", "T">>, key>>,
                    ArrayOf(<<<<"G", "E", "T">>, key>>))
    IN  /\ lb_request' = [via |-> "direct", args |-> req.args,
                          after_drop |-> FALSE]
        /\ lb_target' = port
        /\ lb_connected' = TRUE
        /\ \E h \in {WorkerServe(port, req)} :
              /\ worker_db' = AfterServe(port, h.db)
              /\ lb_reply' = h.response
        /\ UNCHANGED <<hash_fn, servers_add_, hash_ring_, server_map_,
                       lb_running, lb_sockets, home, lastSet>>

RouterRest ==
    UNCHANGED <<lruVars, logVars, tierVars, serverVars, connVars,
                compactVars, dictVars, lastOp>>

RouteStep ==
    /\ \E req \in RouteSends, connected \in BOOLEAN : Route(req, connected)
    /\ RouterRest

RouteNoKeyStep ==
    /\ \E req \in RouteSends, crashed \in BOOLEAN,
          port \in {server_map_[r] : r \in hash_ring_}, connected \in BOOLEAN :
             RouteNoKey(req, crashed, port, connected)
    /\ RouterRest

DirectGetStep ==
    /\ \E port \in Range(servers_add_), key \in RouteKeys :
          DirectGet(port, key)
    /\ RouterRest

NextRouter == RouteStep \/ RouteNoKeyStep \/ DirectGetStep

SpecRouter == InitRouter /\ [][NextRouter]_vars

\* the last request came through the router and names a key
Routed(r) == r.via = "router" /\ Len(r.args) >= 2

\* the worker on the port holds the key
Holds(port, key) == key \in worker_db[port].map

C25_ConnectFailureDrops ==
    [][(lb_request'.via = "router" /\ lb_running' /\ ~lb_connected')
          => /\ lb_reply' = <<>>
             /\ worker_db' = worker_db
             /\ lb_sockets' = {"client"}
             /\ lb_running']_vars

\* after a request that was dropped, the next one was delivered and answered
C25_Witness ==
    /\ lb_request.via = "router"
    /\ lb_request.after_drop
    /\ lb_connected
    /\ lb_reply # <<>>

\* C39: the router handles every well-formed command, one with no key
\* argument (a one-element array such as INFO) included: it selects a
\* worker, forwards the request, relays the reply of the worker when the
\* connect succeeded, and keeps running.
C39_RouterHandlesEveryCommand ==
    [][(lb_running /\ lb_request'.via = "router")
          => /\ lb_running'
             /\ lb_target' \in Range(servers_add_)
             /\ lb_connected' => lb_reply' # <<>>]_vars

(***************************************************************************)
(* The compactor thread next to the request thread                         *)
(* (part-b/lib/persistence_kv_store.h): a pass of triggerRewrite goes      *)
(* statement by statement, and the calls of the request thread go in       *)
(* between; dataFile is one stream with one file position for both         *)
(***************************************************************************)
\* the keys the request thread uses while the compactor runs
CompactKeys == {<<"a">>, <<"b">>}

NoPending == [op |-> "none", key |-> <<>>, value |-> NoValue, offset |-> 0,
              locked |-> FALSE, in_pass |-> FALSE]

NoPassLog == [k \in CompactKeys |-> "none"]

\* the thread of a step, whether the step read or wrote the index or the
\* filter, and whether the thread held mtx_index while it did
Acts(thread, touches, holds) ==
    [thread |-> thread, index |-> touches, locked |-> holds]

\* the constructor on a new file, the scheduler thread started
InitCompact ==
    /\ \E fsize \in 1..MaxFilterSize : NewStore(fsize)
    /\ NewLRU(0)
    /\ NoTier
    /\ NoConn
    /\ NoRouter
    /\ NoDict
    /\ buffer_ = <<>>
    /\ result_ = <<>>
    /\ response = <<>>
    /\ running = FALSE
    /\ request = <<>>
    /\ set_stored = FALSE
    /\ dumy_keys = {}
    /\ tempFile = <<>>
    /\ temp_ok = TRUE
    /\ new_index = NewTrie
    /\ rw_pc = "idle"
    /\ stream_pos = 0
    /\ mtx_index = "free"
    /\ pending = NoPending
    /\ actor = Acts("none", FALSE, FALSE)
    /\ pass_log = NoPassLog
    /\ passes = 0
    /\ lastOp = NoOp
    /\ lastSet = [k \in Keys |-> NoValue]

\* insert, up to the flush: the record is appended before mtx_index is taken
ReqInsertAppend(key, value) ==
    /\ pending.op = "none"
    /\ CanInsert(Store, key, value)
    /\ dataFile' = dataFile \o Record(key, value)
    /\ stream_pos' = Len(dataFile')
    /\ pending' = [op |-> "insert", key |-> key, value |-> value,
                   offset |-> Len(dataFile), locked |-> FALSE,
                   in_pass |-> rw_pc # "idle"]
    /\ actor' = Acts("request", FALSE, FALSE)
    /\ UNCHANGED <<passes, index, bloomFilter, filter_size, removed, tempFile,
                   temp_ok, new_index, rw_pc, mtx_index, pass_log, lastOp,
                   lastSet>>

\* insert: lock_guard lock(mtx_index); index->insert(_key, offset)
ReqInsertIndex ==
    /\ pending.op = "insert" /\ ~pending.locked
    /\ mtx_index = "free"
    /\ mtx_index' = "request"
    /\ index' = TrieInsert(index, pending.key, pending.offset)
    /\ pending' = [pending EXCEPT !.locked = TRUE]
    /\ actor' = Acts("request", TRUE, TRUE)
    /\ UNCHANGED <<passes, dataFile, bloomFilter, filter_size, removed, tempFile,
                   temp_ok, new_index, rw_pc, stream_pos, pass_log, lastOp,
                   lastSet>>

\* insert: bloomFilter.insert(_key), and the return that unlocks
ReqInsertFilter ==
    /\ pending.op = "insert" /\ pending.locked
    /\ bloomFilter' = FilterInsert(bloomFilter, pending.key)
    /\ mtx_index' = "free"
    /\ pending' = NoPending
    /\ actor' = Acts("request", TRUE, mtx_index = "request")
    /\ removed' = [removed EXCEPT ![pending.key] = FALSE]
    /\ pass_log' = [pass_log EXCEPT ![pending.key] =
                        IF pending.in_pass THEN "insert" ELSE "none"]
    /\ lastOp' = [name |-> "insert", key |-> pending.key,
                  value |-> pending.value, ret |-> TRUE, evicted |-> <<>>]
    /\ lastSet' = [lastSet EXCEPT ![pending.key] = pending.value]
    /\ UNCHANGED <<passes, dataFile, index, filter_size, tempFile, temp_ok,
                   new_index, rw_pc, stream_pos>>

\* where get(key) leaves the position of the stream; a read that failed
\* leaves the stream at the end of the file
GetPos(st, key, pos) ==
    LET offset == TrieSearch(st.index, key)
        k == ReadToken(st.file, offset)
        v == ReadLine(st.file, k.pos)
        e == LineEnd(st.file, SkipWs(st.file, k.pos))
    IN  IF ~FilterContains(st.filter, key) \/ offset = -1 THEN pos
        ELSE IF ~k.ok THEN Len(st.file)
        ELSE IF k.tok # key THEN k.pos
        ELSE IF ~v.ok THEN Len(st.file)
        ELSE IF e < Len(st.file) THEN e + 1
        ELSE Len(st.file)

\* get: the whole call holds mtx_index
ReqGet(key) ==
    /\ pending.op = "none"
    /\ mtx_index = "free"
    /\ stream_pos' = GetPos(Store, key, stream_pos)
    /\ actor' = Acts("request", TRUE, TRUE)
    /\ lastOp' = [name |-> "get", key |-> key,
                  value |-> GetResult(Store, key).value,
                  ret |-> GetResult(Store, key).ret, evicted |-> <<>>]
    /\ UNCHANGED <<passes, logVars, tempFile, temp_ok, new_index, rw_pc, mtx_index,
                   pending, pass_log, lastSet>>

\* remove: the whole call holds mtx_index
ReqRemove(key) ==
    /\ pending.op = "none"
    /\ mtx_index = "free"
    /\ index' = TrieRemove(index, key)
    /\ bloomFilter' = FilterRemove(bloomFilter, key)
    /\ removed' = [removed EXCEPT ![key] = TRUE]
    /\ actor' = Acts("request", TRUE, TRUE)
    /\ pass_log' = [pass_log EXCEPT ![key] =
                        IF rw_pc # "idle" THEN "remove" ELSE "none"]
    /\ lastOp' = [name |-> "remove", key |-> key, value |-> NoValue,
                  ret |-> TRUE, evicted |-> <<>>]
    /\ lastSet' = [lastSet EXCEPT ![key] = NoValue]
    /\ UNCHANGED <<passes, dataFile, filter_size, tempFile, temp_ok, new_index,
                   rw_pc, stream_pos, mtx_index, pending>>

\* triggerRewrite up to the loop: the temporary file is opened, which can
\* fail, and the stream is taken back to the start of the file
RwStart(opened) ==
    /\ rw_pc = "idle"
    /\ passes < MaxPasses
    /\ passes' = passes + 1
    /\ rw_pc' = "scan"
    /\ tempFile' = <<>>
    /\ temp_ok' = opened
    /\ new_index' = NewTrie
    /\ stream_pos' = 0
    /\ actor' = Acts("compactor", FALSE, FALSE)
    /\ pass_log' = NoPassLog
    /\ UNCHANGED <<logVars, mtx_index, pending, lastOp, lastSet>>

\* one turn of the loop of triggerRewrite: a stream that is not open takes
\* no bytes and its tellp() is -1
RwScan ==
    LET curr_pos == stream_pos
        k == ReadToken(dataFile, curr_pos)
        v == ReadToken(dataFile, k.pos)
        key_offset == TrieSearch(index, k.tok)
        offset == IF temp_ok THEN Len(tempFile) ELSE -1
    IN  /\ rw_pc = "scan"
        /\ IF ~k.ok \/ ~v.ok
           THEN /\ rw_pc' = "truncate"
                /\ stream_pos' = Len(dataFile)
                /\ actor' = Acts("compactor", FALSE, FALSE)
                /\ UNCHANGED <<tempFile, new_index>>
           ELSE /\ rw_pc' = "scan"
                /\ stream_pos' = v.pos
                /\ actor' = Acts("compactor", TRUE, mtx_index = "compactor")
                /\ IF key_offset # -1 /\ IsLatest(key_offset, curr_pos)
                   THEN /\ tempFile' = IF temp_ok
                                       THEN tempFile \o Record(k.tok, v.tok)
                                       ELSE tempFile
                        /\ new_index' = TrieInsert(new_index, k.tok, offset)
                   ELSE UNCHANGED <<tempFile, new_index>>
        /\ UNCHANGED <<passes, logVars, temp_ok, mtx_index, pending, pass_log,
                       lastOp, lastSet>>

\* std::ofstream newDataFile(filename, std::ios::trunc)
RwTruncate ==
    /\ rw_pc = "truncate"
    /\ rw_pc' = "copy"
    /\ dataFile' = <<>>
    /\ actor' = Acts("compactor", FALSE, FALSE)
    /\ UNCHANGED <<passes, index, bloomFilter, filter_size, removed, tempFile,
                   temp_ok, new_index, stream_pos, mtx_index, pending,
                   pass_log, lastOp, lastSet>>

\* the bytes src written from the start of the file f, over what is there
Overlay(f, src) ==
    IF Len(src) >= Len(f) THEN src
    ELSE src \o SubSeq(f, Len(src) + 1, Len(f))

\* newDataFile << tempData.rdbuf(), the closes and the removal of the
\* temporary file
RwCopy ==
    /\ rw_pc = "copy"
    /\ rw_pc' = "swap"
    /\ dataFile' = Overlay(dataFile, tempFile)
    /\ tempFile' = <<>>
    /\ actor' = Acts("compactor", FALSE, FALSE)
    /\ UNCHANGED <<passes, index, bloomFilter, filter_size, removed, temp_ok,
                   new_index, stream_pos, mtx_index, pending, pass_log,
                   lastOp, lastSet>>

\* lock_guard lock(mtx_index) and the swap of the index; the open of a
\* stream that is open fails and changes nothing
RwSwap ==
    /\ rw_pc = "swap"
    /\ mtx_index = "free"
    /\ rw_pc' = "idle"
    /\ index' = new_index
    /\ new_index' = NewTrie
    /\ temp_ok' = TRUE
    /\ pending' = [pending EXCEPT !.in_pass = FALSE]
    /\ actor' = Acts("compactor", TRUE, TRUE)
    /\ pass_log' = NoPassLog
    /\ lastOp' = [name |-> "rewrite", key |-> <<>>, value |-> NoValue,
                  ret |-> TRUE, evicted |-> <<>>]
    /\ UNCHANGED <<passes, dataFile, bloomFilter, filter_size, removed,
                   tempFile, stream_pos, mtx_index, lastSet>>

CompactRest == UNCHANGED <<lruVars, tierVars, serverVars, connVars,
                           routerVars, dictVars>>

ReqInsertAppendStep ==
    /\ \E key \in CompactKeys, value \in LogValues :
          ReqInsertAppend(key, value)
    /\ CompactRest

ReqInsertIndexStep == ReqInsertIndex /\ CompactRest

ReqInsertFilterStep == ReqInsertFilter /\ CompactRest

ReqGetStep ==
    /\ \E key \in CompactKeys : ReqGet(key)
    /\ CompactRest

ReqRemoveStep ==
    /\ \E key \in CompactKeys : ReqRemove(key)
    /\ CompactRest

RwStartStep ==
    /\ \E opened \in BOOLEAN : RwStart(opened)
    /\ CompactRest

RwScanStep == RwScan /\ CompactRest

RwTruncateStep == RwTruncate /\ CompactRest

RwCopyStep == RwCopy /\ CompactRest

RwSwapStep == RwSwap /\ CompactRest

NextCompact ==
    \/ ReqInsertAppendStep
    \/ ReqInsertIndexStep
    \/ ReqInsertFilterStep
    \/ ReqGetStep
    \/ ReqRemoveStep
    \/ RwStartStep
    \/ RwScanStep
    \/ RwTruncateStep
    \/ RwCopyStep
    \/ RwSwapStep

SpecCompact == InitCompact /\ [][NextCompact]_vars

(***************************************************************************)
(* Properties of the store while the compactor runs                        *)
(***************************************************************************)
\* the step is the one in which a pass of the compactor completes
PassCompletes == rw_pc = "swap" /\ rw_pc' = "idle"

\* the step is a call of get by the request thread
GetCallStep ==
    /\ actor'.thread = "request"
    /\ lastOp'.name = "get"
    /\ pending' = pending

\* the step is taken by the compactor in a pass whose temporary file could
\* not be opened
FailedPassStep ==
    /\ actor'.thread = "compactor"
    /\ rw_pc # "idle"
    /\ ~temp_ok

\* C26: an insert(K, V) that executes while a pass of the compactor is in
\* progress is not lost: when the pass has completed K is live, get(K)
\* returns V, and the index entry of K points to a record of K in the live
\* file.
C26_InsertDuringPassNotLost ==
    [][PassCompletes
          => \A k \in CompactKeys :
                pass_log[k] = "insert"
                   => /\ TrieSearch(index', k)
                            \in RecordOffsets(dataFile', 0, k)
                      /\ GetResult(Store, k)'.ret
                      /\ GetResult(Store, k)'.value = lastSet[k]]_vars

\* C27: a get(K) that runs while a pass of the compactor is in progress,
\* for a key that was inserted and not removed since and that the filter
\* lets through, returns the current value of K: it reports no miss and
\* returns no bytes of another record.
C27_GetDuringPass ==
    [][(/\ GetCallStep
        /\ rw_pc # "idle"
        /\ lastSet[lastOp'.key] # NoValue
        /\ FilterContains(bloomFilter, lastOp'.key))
          => /\ lastOp'.ret
             /\ lastOp'.value = lastSet[lastOp'.key]]_vars

\* C28: every step of the request thread and of the compactor that reads
\* or writes the index or the membership filter is taken by a thread that
\* holds mtx_index, so no such step is taken while the other thread holds
\* it.
C28_IndexUnderMutex ==
    [][actor'.index
          => /\ actor'.locked
             /\ mtx_index \in {"free", actor'.thread}]_vars

\* C29: a remove(K) that executes while a pass of the compactor is in
\* progress stays effective: when the pass has completed get(K) reports a
\* miss and the index has no live entry for K.
C29_RemoveDuringPassEffective ==
    [][PassCompletes
          => \A k \in CompactKeys :
                pass_log[k] = "remove"
                   => /\ TrieSearch(index', k) = -1
                      /\ ~GetResult(Store, k)'.ret]_vars

\* C30: a pass of the compactor whose temporary file could not be opened is
\* aborted: none of its steps changes the live file or the index.
C30_FailedPassAborts ==
    [][FailedPassStep => (dataFile' = dataFile /\ index' = index)]_vars

(***************************************************************************)
(* Dict (lib/dict.h): the dictionary with two hash tables and incremental  *)
(* rehash.  A table is the sequence of its buckets, bucket i of the code   *)
(* at position i + 1, each bucket the chain of its entries, head first;    *)
(* a table of no buckets is the null table.  d.ht[0] of the code is ht[1]  *)
(* here and d.ht[1] is ht[2].                                              *)
(***************************************************************************)
\* the number of distinct keys the callers use
MaxDictKeys == 5

\* the largest n of a call rehash(n)
MaxRehashN == 2

DICT_HT_INITIAL_SIZE == 4
DICT_OK == 0
DICT_ERR == 1

\* find returned nullptr
DictNull == "nullptr"

DictKeys == 1..MaxDictKeys
\* the value pointers: the callers add with the first and replace with the
\* second
AddValues == {"v"}
ReplaceValues == {"w"}

\* the hash functions the dictionary is constructed with: one that puts
\* neighbouring keys into neighbouring buckets, and one under which buckets
\* hold chains of up to three keys that the larger table splits in part
DictHashes ==
    {[k \in DictKeys |-> k],
     [k \in DictKeys |-> (k * k) % (2 * DICT_HT_INITIAL_SIZE)]}

\* _dictReset
dictReset == [table |-> <<>>, used |-> 0]

\* calloc(realsize, sizeof(dictEntry *))
EmptyTable(realsize) == [i \in 1..realsize |-> <<>>]

\* the dict d of the object
TheDict == [ht |-> d_ht, rehashidx |-> d_rehashidx]

\* hash & ht->sizemask, with sizemask = size - 1 and size a power of two
Slot(ht, key) == hashFunction[key] % Len(ht.table)

\* dictIsRehashing
dictIsRehashing(d) == d.rehashidx # -1

\* _dictNextPower: i starts at DICT_HT_INITIAL_SIZE and doubles
RECURSIVE dictNextPower(_, _)
dictNextPower(sz, i) == IF i >= sz THEN i ELSE dictNextPower(sz, 2 * i)

\* _dictExpand
dictExpand(d, sz) ==
    LET n == [table |-> EmptyTable(dictNextPower(sz, DICT_HT_INITIAL_SIZE)),
              used |-> 0]
    IN  IF dictIsRehashing(d) \/ d.ht[1].used > sz
        THEN [d |-> d, ret |-> DICT_ERR]
        ELSE IF d.ht[1].table = <<>>
        THEN [d |-> [d EXCEPT !.ht[1] = n], ret |-> DICT_OK]
        ELSE [d |-> [d EXCEPT !.ht[2] = n, !.rehashidx = 0], ret |-> DICT_OK]

\* _dictExpandIfNeeded
dictExpandIfNeeded(d) ==
    IF dictIsRehashing(d) THEN [d |-> d, ret |-> DICT_OK]
    ELSE IF Len(d.ht[1].table) = 0 THEN dictExpand(d, DICT_HT_INITIAL_SIZE)
    ELSE IF d.ht[1].used >= Len(d.ht[1].table)
    THEN dictExpand(d, d.ht[1].used * 2)
    ELSE [d |-> d, ret |-> DICT_OK]

\* _dictShouldResize: loadFactor is used / size as a float, NaN for the
\* null table, and every comparison with NaN is false
dictShouldResize(d, can_resize) ==
    IF dictIsRehashing(d) THEN FALSE
    ELSE IF Len(d.ht[1].table) = 0 THEN FALSE
    ELSE IF ~can_resize /\ d.ht[1].used < 5 * Len(d.ht[1].table) THEN FALSE
    ELSE d.ht[1].used >= Len(d.ht[1].table)

\* the inner loop of dictRehash over one bucket: each entry of the chain,
\* from its head, becomes the head of its bucket of ht[1]
RECURSIVE MoveChain(_, _)
MoveChain(ht, chain) ==
    IF chain = <<>> THEN ht
    ELSE MoveChain([ht EXCEPT !.table[Slot(ht, Head(chain).key) + 1] =
                                  <<Head(chain)>> \o @,
                              !.used = @ + 1],
                   Tail(chain))

\* dictRehash: the loop over the empty buckets at rehashidx
RECURSIVE SkipEmpty(_, _)
SkipEmpty(d, empty_visits) ==
    IF d.ht[1].table[d.rehashidx + 1] = <<>>
    THEN IF empty_visits - 1 = 0
         THEN [d |-> [d EXCEPT !.rehashidx = @ + 1], visits |-> 0,
               out |-> TRUE]
         ELSE SkipEmpty([d EXCEPT !.rehashidx = @ + 1], empty_visits - 1)
    ELSE [d |-> d, visits |-> empty_visits, out |-> FALSE]

\* dictRehash: what follows the loop
RehashEnd(d) ==
    IF d.ht[1].used = 0
    THEN [d |-> [ht |-> <<d.ht[2], dictReset>>, rehashidx |-> -1], ret |-> 0]
    ELSE [d |-> d, ret |-> 1]

\* dictRehash: while (n-- && d->ht[0].used != 0)
RECURSIVE RehashLoop(_, _, _)
RehashLoop(d, n, empty_visits) ==
    IF n = 0 \/ d.ht[1].used = 0 THEN RehashEnd(d)
    ELSE LET skip == SkipEmpty(d, empty_visits)
             at == skip.d.rehashidx + 1
             chain == skip.d.ht[1].table[at]
         IN  IF skip.out THEN [d |-> skip.d, ret |-> 1]
             ELSE RehashLoop(
                    [ht |-> <<[table |-> [skip.d.ht[1].table
                                            EXCEPT ![at] = <<>>],
                               used |-> skip.d.ht[1].used - Len(chain)],
                              MoveChain(skip.d.ht[2], chain)>>,
                     rehashidx |-> skip.d.rehashidx + 1],
                    n - 1, skip.visits)

dictRehash(d, n) ==
    IF ~dictIsRehashing(d) THEN [d |-> d, ret |-> 0]
    ELSE RehashLoop(d, n, n * 10)

\* _dictRehashStep, behind the callers' test of dictIsRehashing; no
\* iterator is ever made, so d.iterators is 0
dictRehashStep(d) == IF dictIsRehashing(d) THEN dictRehash(d, 1).d ELSE d

\* variant: only ht[0] is searched
SearchTables_First(d) == <<1>>

\* the tables the loops "for (table = 0; table <= 1; table++)" look at
SearchTables(d) == IF dictIsRehashing(d) THEN <<1, 2>> ELSE <<1>>

\* the positions in the chain of the key's bucket of table t where
\* keyCompare finds the key
Matches(d, t, key) ==
    IF d.ht[t].table = <<>> THEN {}
    ELSE LET chain == d.ht[t].table[Slot(d.ht[t], key) + 1]
         IN  {i \in 1..Len(chain) : chain[i].key = key}

\* no entry (nullptr)
NoEntry == [t |-> 0, slot |-> 0, pos |-> 0]

\* the first entry of the key that the loops over the tables come to:
\* its table, bucket and place in the chain
Locate(d, key) ==
    LET hits == SelectSeq(SearchTables(d),
                          LAMBDA t : Matches(d, t, key) # {})
    IN  IF hits = <<>> THEN NoEntry
        ELSE [t |-> hits[1], slot |-> Slot(d.ht[hits[1]], key) + 1,
              pos |-> CHOOSE i \in Matches(d, hits[1], key) :
                         \A j \in Matches(d, hits[1], key) : i <= j]

\* _dictKeyIndex: -1 when the expansion failed or the key is there, and
\* else the bucket of the key in the last table looked at
dictKeyIndex(d, key) ==
    LET e == dictExpandIfNeeded(d)
        last == SearchTables(e.d)[Len(SearchTables(e.d))]
    IN  IF e.ret = DICT_ERR
        THEN [d |-> e.d, index |-> -1, existing |-> NoEntry]
        ELSE IF Locate(e.d, key).t # 0
        THEN [d |-> e.d, index |-> -1, existing |-> Locate(e.d, key)]
        ELSE [d |-> e.d, index |-> Slot(e.d.ht[last], key),
              existing |-> Locate(e.d, key)]

\* entry->v.val = val
SetVal(d, at, val) ==
    [d EXCEPT !.ht[at.t].table[at.slot][at.pos].val = val]

\* dictAddRaw: entry.t is 0 when it returns nullptr
dictAddRaw(d, key) ==
    LET ki == dictKeyIndex(dictRehashStep(d), key)
        t == IF dictIsRehashing(ki.d) THEN 2 ELSE 1
    IN  IF ki.index = -1
        THEN [d |-> ki.d, entry |-> NoEntry,
              existing |-> ki.existing]
        ELSE [d |-> [ki.d EXCEPT
                        !.ht[t].table[ki.index + 1] =
                            <<[key |-> key, val |-> DictNull]>> \o @,
                        !.ht[t].used = @ + 1],
              entry |-> [t |-> t, slot |-> ki.index + 1, pos |-> 1],
              existing |-> ki.existing]

\* dictAdd
dictAdd(d, key, val) ==
    LET raw == dictAddRaw(d, key)
    IN  IF raw.entry.t = 0 THEN [d |-> raw.d, ret |-> DICT_ERR]
        ELSE [d |-> SetVal(raw.d, raw.entry, val), ret |-> DICT_OK]

\* dictReplace
dictReplace(d, key, val) ==
    LET raw == dictAddRaw(d, key)
    IN  IF raw.entry.t # 0
        THEN [d |-> SetVal(raw.d, raw.entry, val), ret |-> 1]
        ELSE [d |-> SetVal(raw.d, raw.existing, val), ret |-> 0]

\* the chain without its entry at pos
UnlinkEntry(chain, pos) ==
    SubSeq(chain, 1, pos - 1) \o SubSeq(chain, pos + 1, Len(chain))

\* dictDelete
dictDelete(d, key) ==
    IF d.ht[1].used = 0 /\ d.ht[2].used = 0 THEN [d |-> d, ret |-> DICT_ERR]
    ELSE LET d1 == dictRehashStep(d)
             at == Locate(d1, key)
         IN  IF at.t = 0 THEN [d |-> d1, ret |-> DICT_ERR]
             ELSE [d |-> [d1 EXCEPT
                            !.ht[at.t].table[at.slot] = UnlinkEntry(@, at.pos),
                            !.ht[at.t].used = @ - 1],
                   ret |-> DICT_OK]

\* dictFind: the value of the entry, DictNull for nullptr
dictFind(d, key) ==
    IF d.ht[1].used + d.ht[2].used = 0 THEN [d |-> d, ret |-> DictNull]
    ELSE LET d1 == dictRehashStep(d)
             at == Locate(d1, key)
         IN  IF at.t = 0 THEN [d |-> d1, ret |-> DictNull]
             ELSE [d |-> d1,
                   ret |-> d1.ht[at.t].table[at.slot][at.pos].val]

\* Dict::add
add(d, can_resize, key, val) ==
    LET d1 == IF dictShouldResize(d, can_resize)
              THEN dictExpand(d, d.ht[1].used * 2).d ELSE d
    IN  dictAdd(dictRehashStep(d1), key, val)

\* Dict::replace
replace(d, key, val) == dictReplace(d, key, val)

\* Dict::remove
remove(d, key) == dictDelete(dictRehashStep(d), key)

\* Dict::find
find(d, key) == dictFind(dictRehashStep(d), key)

\* Dict::rehash
rehash(d, n) == dictRehash(d, n)

\* Dict(...): _dictInit.  dict_can_resize has no initializer, so it holds
\* either value
InitDict ==
    /\ NewLRU(0)
    /\ NoStore
    /\ NoTier
    /\ NoConn
    /\ NoRouter
    /\ NoCompact
    /\ buffer_ = <<>>
    /\ result_ = <<>>
    /\ response = <<>>
    /\ running = FALSE
    /\ request = <<>>
    /\ set_stored = FALSE
    /\ dumy_keys = {}
    /\ d_ht = <<dictReset, dictReset>>
    /\ d_rehashidx = -1
    /\ dict_can_resize \in BOOLEAN
    /\ hashFunction \in DictHashes
    /\ dict_model = [k \in DictKeys |-> DictNull]
    /\ dict_last = [name |-> "new", ret |-> 0, present |-> FALSE]
    /\ lastOp = NoOp
    /\ lastSet = [k \in Keys |-> NoValue]

\* a call of the dictionary for a key that left it as r.d and returned
\* r.ret; present: a map would have held the key before the call
DictCall(name, key, r) ==
    /\ d_ht' = r.d.ht
    /\ d_rehashidx' = r.d.rehashidx
    /\ dict_last' = [name |-> name, ret |-> r.ret,
                     present |-> dict_model[key] # DictNull]
    /\ UNCHANGED <<dict_can_resize, hashFunction>>

DictAdd(key, val) ==
    /\ DictCall("add", key, add(TheDict, dict_can_resize, key, val))
    /\ dict_model' = IF dict_model[key] = DictNull
                     THEN [dict_model EXCEPT ![key] = val]
                     ELSE dict_model

DictReplace(key, val) ==
    /\ DictCall("replace", key, replace(TheDict, key, val))
    /\ dict_model' = [dict_model EXCEPT ![key] = val]

DictRemove(key) ==
    /\ DictCall("remove", key, remove(TheDict, key))
    /\ dict_model' = [dict_model EXCEPT ![key] = DictNull]

DictFind(key) ==
    /\ DictCall("find", key, find(TheDict, key))
    /\ UNCHANGED dict_model

DictRehash(n) ==
    /\ d_ht' = rehash(TheDict, n).d.ht
    /\ d_rehashidx' = rehash(TheDict, n).d.rehashidx
    /\ dict_last' = [name |-> "rehash", ret |-> rehash(TheDict, n).ret,
                     present |-> FALSE]
    /\ UNCHANGED <<dict_can_resize, hashFunction, dict_model>>

DictRest ==
    UNCHANGED <<lruVars, logVars, tierVars, serverVars, connVars, routerVars,
                compactVars, lastOp, lastSet>>

DictAddStep ==
    /\ \E key \in DictKeys, val \in AddValues : DictAdd(key, val)
    /\ DictRest

DictReplaceStep ==
    /\ \E key \in DictKeys, val \in ReplaceValues : DictReplace(key, val)
    /\ DictRest

DictRemoveStep ==
    /\ \E key \in DictKeys : DictRemove(key)
    /\ DictRest

DictFindStep ==
    /\ \E key \in DictKeys : DictFind(key)
    /\ DictRest

DictRehashStep ==
    /\ \E n \in 1..MaxRehashN : DictRehash(n)
    /\ DictRest

NextDict ==
    DictAddStep \/ DictReplaceStep \/ DictRemoveStep \/ DictFindStep
        \/ DictRehashStep

SpecDict == InitDict /\ [][NextDict]_vars

\* the entries of the key in the chains of the table
RECURSIVE CountIn(_, _)
CountIn(table, key) ==
    IF table = <<>> THEN 0
    ELSE Cardinality({i \in 1..Len(Head(table)) : Head(table)[i].key = key})
            + CountIn(Tail(table), key)

\* C40: the dictionary behaves as a map at every step, also while a rehash
\* is in progress: find(k) returns the value last stored for k if k was
\* added and not removed since, and nothing otherwise; add of a key that is
\* present returns 1 and changes nothing; remove returns 0 exactly when the
\* key was present; the two tables together hold each stored key once.
C40_DictIsMap ==
    /\ \A k \in DictKeys :
          /\ find(TheDict, k).ret = dict_model[k]
          /\ CountIn(d_ht[1].table, k) + CountIn(d_ht[2].table, k)
                = IF dict_model[k] = DictNull THEN 0 ELSE 1
    /\ dict_last.name = "add"
          => dict_last.ret = IF dict_last.present THEN 1 ELSE 0
    /\ dict_last.name = "remove"
          => (dict_last.ret = 0 <=> dict_last.present)
    /\ dict_last.name = "find"
          => (dict_last.ret # DictNull <=> dict_last.present)

\* an add of a key that is present failed while a rehash was in progress,
\* with entries in both tables
C40_Witness ==
    /\ dict_last.name = "add" /\ dict_last.ret = 1
    /\ d_rehashidx > 0
    /\ d_ht[1].used > 0 /\ d_ht[2].used > 0

====
